---- MODULE Spec2Model ----
(***************************************************************************)
(* A model of the core of bedrock_llm: the retry wrappers of the clients,  *)
(* the tool-calling loop of the Agent, and the streaming parsers of the    *)
(* protocol adapters.                                                      *)
(*                                                                         *)
(* The module holds several state machines over disjoint groups of           *)
(* variables; each has its own specification, in which the variables of    *)
(* the others stay at their idle values:                                *)
(*   SpecRetry   the retry wrappers (client/base.py, client.py,            *)
(*               client/async_client.py)                                   *)
(*   SpecAgent   Agent.generate_and_action_async and tool processing       *)
(*   SpecStream  parse_stream_response of the adapters                     *)
(*   SpecCall    one generate / generate_async call of a client: prompt    *)
(*               processing, request building, transport under retry       *)
(*   SpecMemory  Agent._update_memory and Agent._manage_memory             *)
(*   SpecParse   parse_response of the adapters                            *)
(*   SpecRegistry  the Agent.tool decorator                                *)
(***************************************************************************)
EXTENDS Integers, Sequences, FiniteSets, TLC

----------------------------------------------------------------------------
(* Bounds of the model *)

\* largest RetryConfig.max_retries explored (the field is an int >= 0)
MaxRetries == 3
\* largest RetryConfig.retry_delay explored, in whole seconds
MaxDelay == 2
\* tokens a streaming attempt yields before its terminal triple
StreamLen == 1
\* largest Agent.max_iterations explored
MaxIter == 2
\* most content items, or structured tool calls, of one model response
MaxCalls == 2
\* message-carrying non-terminal triples (JSON-chat tool-call deltas) per run
MaxPartials == 1
\* events of the response stream handed to an adapter
MaxEvents == 3
MaxBlockEvents == 5
\* largest Agent memory_limit explored
MaxLimit == 2
\* longest _conversation_history at the start of a run
MaxHist == 3
\* _update_memory calls, and tool turns, in one run
MaxUpdates == 2
MaxRegistrations == 3
\* clients constructed, each on a thread of its own
MaxClients == 3
\* Agent instances that execute tools at the same time
MaxAgents == 2
\* tool bodies started and not yet finished, over all agents
MaxInFlight == 12
\* async transport clients created in one run
MaxTransports == 3

----------------------------------------------------------------------------
(* Generic helpers *)

RECURSIVE Pow2(_)
Pow2(n) == IF n = 0 THEN 1 ELSE 2 * Pow2(n - 1)

Last(s) == s[Len(s)]

----------------------------------------------------------------------------
(* State *)

VARIABLES
    \* --- retry wrappers ---
    rcfg,       \* the client's RetryConfig and the wrapper under study
    rpc,        \* position of the wrapper's flow of control
    attempt,    \* loop variable of "for attempt in range(max_retries)"
    rlog,       \* what the wrapper did so far: calls, their outcomes, sleeps
    rerr,       \* the error that reached the caller, NoError while none
    rtok,       \* tokens the running streaming attempt has yielded
    delivered,  \* what the caller of generate_async received, in order
    \* --- agent loop ---
    acfg,       \* Agent configuration: max_iterations, auto_update_memory
    apc,        \* position of generate_and_action_async
    genCalls,   \* generate_async calls made so far (iterations begun)
    memory,     \* self.memory: the messages, each named by where it came from
    genInput,   \* the prompt argument of the latest generate_async call
    response,   \* the final message of the current generation
    stopReason, \* its stop reason, "None" while the generation streams
    tasks,      \* __process_tools: the (tool, tool_data, params) entries
    tstatus,    \* per task: "running", or how its __execute_tool ended
    results,    \* the result entries of the current turn
    lastTurn,   \* the latest turn whose tool results were assembled
    outs,       \* the last two items yielded to the caller, newest last
    toolRuns,   \* tool bodies run in the current turn
    partials,   \* message-carrying non-terminal triples received so far
    onlyToolUse,\* every generation so far ended with TOOL_USE
    aerr,       \* the error generate_and_action_async raised, "none" if none
    \* --- adapters' streaming parsers ---
    adapter,    \* the adapter whose parse_stream_response runs
    spc,        \* "parse" while it iterates, then "done" or "raised"
    nev,        \* events consumed so far
    yielded,    \* the triples it has yielded, in order
    sfull,      \* the text accumulated so far, as characters
    sstart,     \* Claude: kind of the last content_block_start, "unset" if none
    serr,       \* the exception that ended the parser, "none" if none
    scontent,   \* Claude: message.content, the blocks assembled so far
    sevents,    \* Claude: the kinds of the events consumed so far
    stool,      \* Claude: tool_input, the partial_json fragments accumulated
    \* --- one generate / generate_async call of a client ---
    creq,       \* the call: adapter, tools, prompt kind, memory at entry, flag
    cpc,        \* position of the call's flow of control
    cattempt,   \* loop variable of the retry loop the call runs under
    cmem,       \* self.memory
    cinvoke,    \* the messages handed to the adapter's prepare operation
    clog,       \* prepare / transport / sleep events of the call, in order
    cerr,       \* the error the call raised, "none" if none
    \* --- agent memory management ---
    mlimit,     \* self._memory_limit
    mmemory,    \* self.memory, the list every generate call is given
    mhist,      \* self._conversation_history
    mupdates,   \* _update_memory calls so far
    mturns,     \* tool turns appended so far
    mlast,      \* the latest operation: "none", "update" or "turn"
    \* --- adapters' single-shot parsers ---
    preq,       \* the adapter and the backend payload given to parse_response
    ppc,        \* "parse" before the call, then "returned" or "raised"
    pres,       \* the (message role, StopReason) returned, or the exception
    \* --- tool registration ---
    regFunctions,  \* Agent.tool_functions: tool name -> entry or NoTool
    regCache,      \* Agent._tool_cache: tool name -> wrapper or NoWrapper
    regLast,       \* the latest use of the decorator and its outcome
    regCount,      \* uses of the decorator so far
    \* --- adapter cache of BaseClient ---
    iname,      \* client -> the model_name it is constructed with
    ipc,        \* client -> where its constructor stands
    iheld,      \* client -> self.model_implementation, 0 before it is set
    implStore,  \* BaseClient._model_implementations: name -> instance, 0 if absent
    implMade,   \* the adapter instances created so far: instance i is for implMade[i]
    \* --- tool bodies and Agent._executor ---
    xbody,      \* <<agent, is_async, place>> -> bodies started and not finished
    \* --- cached async transport clients ---
    tregion,    \* client -> its region_name
    tpc,        \* client -> "new", "creating" (inside get_async_client) or "open"
    theld,      \* client -> self._async_client, 0 for None
    tcache,     \* AWSClientManager._async_clients: region -> transport, 0 if absent
    tmade,      \* transports created so far; they are numbered from 1
    tclosed     \* transport -> the number of times its __aexit__ was awaited

varsRetry == <<rcfg, rpc, attempt, rlog, rerr, rtok, delivered>>

varsAgent == <<acfg, apc, genCalls, memory, genInput, response, stopReason,
               tasks, tstatus, results, lastTurn, outs, toolRuns,
               partials, onlyToolUse, aerr>>

varsStream ==
    <<adapter, spc, nev, yielded, sfull, sstart, serr, scontent, sevents, stool>>

varsCall == <<creq, cpc, cattempt, cmem, cinvoke, clog, cerr>>

varsMemory == <<mlimit, mmemory, mhist, mupdates, mturns, mlast>>

varsParse == <<preq, ppc, pres>>

varsRegistry == <<regFunctions, regCache, regLast, regCount>>

varsImpl == <<iname, ipc, iheld, implStore, implMade>>

varsExec == <<xbody>>

varsTransport == <<tregion, tpc, theld, tcache, tmade, tclosed>>

vars == <<varsRetry, varsAgent, varsStream, varsCall, varsMemory, varsParse,
          varsRegistry, varsImpl, varsExec, varsTransport>>

\* what the steps of one machine leave unchanged
notRetry == <<varsAgent, varsStream, varsCall, varsMemory, varsParse,
    varsRegistry, varsImpl, varsExec, varsTransport>>
notAgent == <<varsRetry, varsStream, varsCall, varsMemory, varsParse,
    varsRegistry, varsImpl, varsExec, varsTransport>>
notStream == <<varsRetry, varsAgent, varsCall, varsMemory, varsParse,
    varsRegistry, varsImpl, varsExec, varsTransport>>
notCall == <<varsRetry, varsAgent, varsStream, varsMemory, varsParse,
    varsRegistry, varsImpl, varsExec, varsTransport>>
notMemory == <<varsRetry, varsAgent, varsStream, varsCall, varsParse,
    varsRegistry, varsImpl, varsExec, varsTransport>>
notParse == <<varsRetry, varsAgent, varsStream, varsCall, varsMemory,
    varsRegistry, varsImpl, varsExec, varsTransport>>
notRegistry == <<varsRetry, varsAgent, varsStream, varsCall, varsMemory,
    varsParse, varsImpl, varsExec, varsTransport>>
notImpl == <<varsRetry, varsAgent, varsStream, varsCall, varsMemory,
    varsParse, varsRegistry, varsExec, varsTransport>>
notExec == <<varsRetry, varsAgent, varsStream, varsCall, varsMemory,
    varsParse, varsRegistry, varsImpl, varsTransport>>
notTransport == <<varsRetry, varsAgent, varsStream, varsCall, varsMemory,
    varsParse, varsRegistry, varsImpl, varsExec>>

----------------------------------------------------------------------------
(* Retry wrappers                                                          *)
(*   "sync"      BaseClient._handle_retry_logic_sync                       *)
(*   "generate"  LLMClient.generate (its own copy of the loop)             *)
(*   "stream"    AsyncClient.generate_async, which runs the operation once *)
(*               itself and hands every failure to                         *)
(*               BaseClient._handle_retry_logic_stream                     *)
(*   "generate_async"  LLMClient.generate_async (client.py), a loop of its *)
(*               own around the whole streaming attempt                    *)

RetryPaths == {"sync", "generate", "stream", "generate_async"}

\* the paths on which the call machine runs
CallPaths == {"sync", "generate", "stream"}

\* What one invocation of the operation can raise.  ReadTimeoutError is the
\* transport's timeout; a botocore ClientError carries an error code, which
\* is a throttling / service-overload code or any other one (validation,
\* access denied, ...); OtherException is any exception of another class.
FailKinds == {"ReadTimeoutError", "ClientError_Throttling",
              "ClientError_Other", "OtherException"}

\* the transient kinds of the retry policy: timeout and throttling
TransientKinds == {"ReadTimeoutError", "ClientError_Throttling"}

\* except (ReadTimeoutError, ClientError): the error code is not looked at
Caught(kind) ==
    kind \in {"ReadTimeoutError", "ClientError_Throttling", "ClientError_Other"}

\* except Exception, around the first streaming attempt
CaughtByGenerateAsync(kind) == kind \in FailKinds

NoError == [type |-> "none", max_retries_msg |-> FALSE, wraps |-> "none"]

\* a bare "raise" inside the except clause, or an exception that no clause
\* catches: the underlying exception itself reaches the caller
Reraised(kind) == [type |-> kind, max_retries_msg |-> FALSE, wraps |-> "none"]

\* raise Exception("Max retries reached. Unable to invoke model.") after the
\* loop: a new exception, raised outside any except clause
MaxRetriesError ==
    [type |-> "Exception", max_retries_msg |-> TRUE, wraps |-> "none"]

CallEv == [ev |-> "call", kind |-> "none", d |-> 0]
OkEv == [ev |-> "ok", kind |-> "none", d |-> 0]
FailEv(kind) == [ev |-> "fail", kind |-> kind, d |-> 0]
SleepEv(d) == [ev |-> "sleep", kind |-> "none", d |-> d]
\* a streaming attempt raised after it had yielded j tokens
StreamFailEv(kind, j) == [ev |-> "fail", kind |-> kind, d |-> j]

\* seeded fault: the exponent counts attempts from one
Delay_FromOne(a) ==
    rcfg.retry_delay * (IF rcfg.exponential_backoff THEN Pow2(a + 1) ELSE 1)

\* delay = retry_delay * (2**attempt if exponential_backoff else 1)
Delay(a) ==
    rcfg.retry_delay * (IF rcfg.exponential_backoff THEN Pow2(a) ELSE 1)

\* if attempt < self.retry_config.max_retries - 1
MayRetry(a) == a < rcfg.max_retries - 1

\* seeded fault: one attempt more than max_retries
InRange_OneMore(a) == a <= rcfg.max_retries

\* for attempt in range(self.retry_config.max_retries)
InRange(a) == a < rcfg.max_retries

\* The except clause of the loop, and the propagation of what it does not
\* catch; log is rlog with the call and its failure recorded, loopPc the
\* position of the loop head.
HandleFailure(kind, log, loopPc) ==
    IF Caught(kind) /\ MayRetry(attempt)
    THEN /\ rlog' = Append(log, SleepEv(Delay(attempt)))
         /\ attempt' = attempt + 1
         /\ rpc' = loopPc
         /\ rerr' = rerr
    ELSE /\ rlog' = log
         /\ attempt' = attempt
         /\ rpc' = "raised"
         /\ rerr' = Reraised(kind)

\* One iteration of the loop of _handle_retry_logic_sync.
SyncAttempt(outcome) ==
    /\ rcfg.path = "sync"
    /\ rpc = "loop"
    /\ InRange(attempt)
    /\ IF outcome = "ok"
       THEN /\ rlog' = rlog \o <<CallEv, OkEv>>
            /\ rpc' = "returned"
            /\ UNCHANGED <<attempt, rerr>>
       ELSE HandleFailure(outcome, rlog \o <<CallEv, FailEv(outcome)>>, "loop")
    /\ UNCHANGED <<rcfg, rtok, delivered, notRetry>>

\* One iteration of the loop of LLMClient.generate: prepare_request,
\* invoke_model and parse_response inside the try.
GenerateAttempt(outcome) ==
    /\ rcfg.path = "generate"
    /\ rpc = "loop"
    /\ InRange(attempt)
    /\ IF outcome = "ok"
       THEN /\ rlog' = rlog \o <<CallEv, OkEv>>
            /\ rpc' = "returned"
            /\ UNCHANGED <<attempt, rerr>>
       ELSE HandleFailure(outcome, rlog \o <<CallEv, FailEv(outcome)>>, "loop")
    /\ UNCHANGED <<rcfg, rtok, delivered, notRetry>>

\* The loop ran out of attempts without returning or raising: the raise
\* after the for statement (sync, generate and the streaming loop alike).
LoopExhausted ==
    /\ rpc \in {"loop", "retry"}
    /\ rcfg.path # "generate_async"
    /\ ~InRange(attempt)
    /\ rpc' = "raised"
    /\ rerr' = MaxRetriesError
    /\ UNCHANGED <<rcfg, attempt, rlog, rtok, delivered, notRetry>>

\* after "break": if attempt >= self.retry_config.max_retries - 1: raise
AfterBreak(a) == IF a >= rcfg.max_retries - 1 THEN "raised" ELSE "returned"

\* One iteration of the loop of LLMClient.generate_async: prepare, invoke
\* and the relay of the parsed stream inside the try; a failing attempt has
\* delivered j tokens, a successful one its complete output, after which
\* the loop is left with break and the test that follows it is made.
LlmStreamAttempt(outcome, j) ==
    /\ rcfg.path = "generate_async"
    /\ rpc = "loop"
    /\ InRange(attempt)
    /\ j \in 0..StreamLen
    /\ IF outcome = "ok"
       THEN /\ j = StreamLen
            /\ rlog' = rlog \o <<CallEv, OkEv>>
            /\ delivered' = delivered \o Append([i \in 1..j |-> i], 0)
            /\ rpc' = AfterBreak(attempt)
            /\ rerr' = IF AfterBreak(attempt) = "raised"
                       THEN MaxRetriesError ELSE rerr
            /\ UNCHANGED attempt
       ELSE /\ delivered' = delivered \o [i \in 1..j |-> i]
            /\ HandleFailure(outcome,
                             rlog \o <<CallEv, StreamFailEv(outcome, j)>>,
                             "loop")
    /\ UNCHANGED <<rcfg, rtok, notRetry>>

\* LLMClient.generate_async with max_retries = 0: the loop body never runs
\* and the test after the loop reads the unbound loop variable
LlmLoopSkipped ==
    /\ rcfg.path = "generate_async"
    /\ rpc = "loop"
    /\ ~InRange(attempt)
    /\ rpc' = "raised"
    /\ rerr' = Reraised("UnboundLocalError")
    /\ UNCHANGED <<rcfg, attempt, rlog, rtok, delivered, notRetry>>

\* AsyncClient.generate_async starts _generate_stream(): first by itself
\* ("direct"), later from the loop of _handle_retry_logic_stream ("retry").
\* seeded fault: the retried attempt goes on where the failed one stopped
StreamInvoke_Resume ==
    /\ rcfg.path = "stream"
    /\ \/ rpc = "direct" /\ rpc' = "run_direct"
       \/ rpc = "retry" /\ InRange(attempt) /\ rpc' = "run_retry"
    /\ rlog' = Append(rlog, CallEv)
    /\ UNCHANGED <<rcfg, attempt, rerr, rtok, delivered, notRetry>>

StreamInvoke ==
    /\ rcfg.path = "stream"
    /\ \/ rpc = "direct" /\ rpc' = "run_direct"
       \/ rpc = "retry" /\ InRange(attempt) /\ rpc' = "run_retry"
    /\ rlog' = Append(rlog, CallEv)
    /\ rtok' = 0
    /\ UNCHANGED <<rcfg, attempt, rerr, delivered, notRetry>>

\* the running attempt yields a token, which is passed on to the caller
StreamYield ==
    /\ rpc \in {"run_direct", "run_retry"}
    /\ rtok < StreamLen
    /\ rtok' = rtok + 1
    /\ delivered' = Append(delivered, rtok + 1)
    /\ UNCHANGED <<rcfg, rpc, attempt, rlog, rerr, notRetry>>

\* the running attempt yields its terminal triple (0) and ends
StreamComplete ==
    /\ rpc \in {"run_direct", "run_retry"}
    /\ rtok = StreamLen
    /\ delivered' = Append(delivered, 0)
    /\ rlog' = Append(rlog, OkEv)
    /\ rpc' = "returned"
    /\ UNCHANGED <<rcfg, attempt, rerr, rtok, notRetry>>

\* the running attempt raises, before or between its tokens
StreamFail(kind) ==
    /\ rpc \in {"run_direct", "run_retry"}
    /\ IF rpc = "run_direct"
       THEN \* except Exception: hand over to _handle_retry_logic_stream
            /\ CaughtByGenerateAsync(kind)
            /\ rlog' = Append(rlog, StreamFailEv(kind, rtok))
            /\ rpc' = "retry"
            /\ UNCHANGED <<attempt, rerr>>
       ELSE HandleFailure(kind, Append(rlog, StreamFailEv(kind, rtok)), "retry")
    /\ UNCHANGED <<rcfg, rtok, delivered, notRetry>>

RetryConfigs ==
    [path : RetryPaths,
     max_retries : 0..MaxRetries,
     retry_delay : 0..MaxDelay,
     exponential_backoff : BOOLEAN]

IdleRetry ==
    /\ rcfg = [path |-> "none", max_retries |-> 0, retry_delay |-> 0,
               exponential_backoff |-> FALSE]
    /\ rpc = "idle"
    /\ attempt = 0
    /\ rlog = <<>>
    /\ rerr = NoError
    /\ rtok = 0
    /\ delivered = <<>>

StartRetry ==
    /\ rcfg \in RetryConfigs
    /\ rpc = IF rcfg.path = "stream" THEN "direct" ELSE "loop"
    /\ attempt = 0
    /\ rlog = <<>>
    /\ rerr = NoError
    /\ rtok = 0
    /\ delivered = <<>>

\* derived views of the log
Calls == Len(SelectSeq(rlog, LAMBDA e : e.ev = "call"))
Failures == SelectSeq(rlog, LAMBDA e : e.ev = "fail")
Sleeps == SelectSeq(rlog, LAMBDA e : e.ev = "sleep")
AllFailuresTransient ==
    \A i \in 1..Len(Failures) : Failures[i].kind \in TransientKinds
SingleShot == rcfg.path \in {"sync", "generate"}

AllCallsFailed == Len(Failures) = Calls

----------------------------------------------------------------------------
(* Agent: generate_and_action_async, __process_tools, __execute_tool       *)
(*                                                                         *)
(* A message kept in memory, or handed to the caller, is named by where it *)
(* came from (the generation that produced it and its part in the turn);   *)
(* the body of the current turn's messages is in response and results.     *)

\* Agent.tool_functions, the class-level registry: one synchronous tool
\* registered with an input_schema, one asynchronous tool without.
tool_functions ==
    [n \in {"sync_tool", "async_tool"} |->
        [is_async |-> (n = "async_tool"), has_schema |-> (n = "sync_tool")]]

\* the names a model may ask for: the registered ones and one that is not
ToolNames == DOMAIN tool_functions \cup {"unknown_tool"}

\* content items and structured calls; id is the item's position in its list
TextItem == [type |-> "text", id |-> 0, name |-> "none", args_ok |-> TRUE]
ToolUseItem(i, n) == [type |-> "tool_use", id |-> i, name |-> n, args_ok |-> TRUE]
\* a ToolCallBlock; args_ok: function["arguments"] is a JSON document
ToolCallItem(i, n, ok) ==
    [type |-> "tool_call", id |-> i, name |-> n, args_ok |-> ok]

AssistantMsg(c, tc) == [role |-> "assistant", content |-> c, tool_calls |-> tc]
NoMsg == [role |-> "none", content |-> <<>>, tool_calls |-> <<>>]

\* every content list a content-block response can hold
ContentLists ==
    UNION { { [i \in 1..n |->
                 IF f[i] = "text" THEN TextItem ELSE ToolUseItem(i, f[i])] :
              f \in [1..n -> {"text"} \cup ToolNames] } : n \in 0..MaxCalls }

\* every tool_calls list a JSON-chat response can hold
CallLists ==
    UNION { { [i \in 1..n |->
                 IF f[i] = "bad_arguments"
                 THEN ToolCallItem(i, "sync_tool", FALSE)
                 ELSE ToolCallItem(i, f[i], TRUE)] :
              f \in [1..n -> {"bad_arguments"} \cup ToolNames] } :
            n \in 0..MaxCalls }

\* the messages an adapter can return together with StopReason.TOOL_USE
ToolUseResponses ==
    { AssistantMsg(c, <<>>) : c \in ContentLists }
      \cup { AssistantMsg(<<TextItem>>, tc) : tc \in CallLists }

StopReasons == {"END_TURN", "MAX_TOKENS", "STOP_SEQUENCE", "TOOL_USE", "ERROR"}

\* names of messages and of the result list of a turn
NoRef == [role |-> "none", gen |-> 0, part |-> "none", idx |-> 0]
UserPrompt == [role |-> "user", gen |-> 0, part |-> "prompt", idx |-> 0]
FinalMsg(g) == [role |-> "assistant", gen |-> g, part |-> "final", idx |-> 0]
PartialMsg(g, i) == [role |-> "assistant", gen |-> g, part |-> "partial", idx |-> i]
ResultsRef(g, n) == [role |-> "none", gen |-> g, part |-> "results", idx |-> n]

\* an AgentResponse: (token, stop_reason, message, tool_results)
Out(tok, sr, msg, tr) ==
    [token |-> tok, stop_reason |-> sr, message |-> msg, tool_results |-> tr]

Push(w, x) == IF Len(w) < 2 THEN Append(w, x) ELSE <<w[2], x>>

\* tool_content = response.content if not response.tool_calls
\*                else response.tool_calls
ToolContent(r) == IF r.tool_calls = <<>> THEN r.content ELSE r.tool_calls

\* ToolState.CLAUDE if isinstance(tools_list[-1], ToolUseBlock)
\* else ToolState.MISTRAL_JAMBA_LLAMA
ToolStateOf(tl) ==
    IF Last(tl).type = "tool_use" THEN "CLAUDE" ELSE "MISTRAL_JAMBA_LLAMA"

IsToolBlock(it) == it.type \in {"tool_use", "tool_call"}

\* The exception that building the task list raises, "none" if it raises
\* none: tools_list[-1] of an empty list; tool.function of a ToolUseBlock
\* and json.loads of the arguments in the MISTRAL_JAMBA_LLAMA branch.
BuildError(tl) ==
    IF tl = <<>> THEN "IndexError"
    ELSE IF ToolStateOf(tl) = "CLAUDE" THEN "none"
    ELSE LET bad == { i \in 1..Len(tl) :
                        \/ tl[i].type = "tool_use"
                        \/ tl[i].type = "tool_call" /\ ~tl[i].args_ok }
         IN IF bad = {} THEN "none"
            ELSE LET i == CHOOSE j \in bad : \A k \in bad : j <= k
                 IN IF tl[i].type = "tool_use"
                    THEN "AttributeError" ELSE "JSONDecodeError"

\* tasks: the tool blocks whose name tool_functions.get() finds, in order
TasksOf(tl) ==
    SelectSeq(tl, LAMBDA it : IsToolBlock(it) /\ it.name \in DOMAIN tool_functions)

\* How __execute_tool can end for a task: "ok" (the body returned),
\* "raised" (the body raised), "invalid" (InputSchema validation raised
\* before the body ran, only for a tool registered with an input_schema).
ExecOutcomes(t) ==
    {"ok", "raised"}
      \cup (IF tool_functions[t.name].has_schema THEN {"invalid"} ELSE {})

\* The entry appended for one (task, result) pair.  CLAUDE: a
\* ToolResultBlock with tool_use_id and is_error.  Otherwise a
\* MessageBlock(role="tool", name=, content=, tool_call_id=): MessageBlock
\* declares neither name nor tool_call_id (its field is tool_calls_id), so
\* the entry keeps role and content only.
ResultEntry(state, t, st) ==
    IF state = "CLAUDE"
    THEN [kind |-> "tool_result", call_id |-> t.id,
          is_error |-> IF st = "ok" THEN "false" ELSE "true", content |-> st]
    ELSE [kind |-> "tool_message", call_id |-> 0,
          is_error |-> "absent", content |-> st]

\* the messages the turn's result gives memory: one user message holding
\* the ToolResultBlocks (CLAUDE), or one tool message per entry
ToolResultMsgs(state, g, n) ==
    IF state = "CLAUDE"
    THEN << [role |-> "user", gen |-> g, part |-> "tool_results", idx |-> 0] >>
    ELSE [i \in 1..n |->
            [role |-> "tool", gen |-> g, part |-> "tool_result", idx |-> i]]

\* self.memory.append(response.model_dump()), under auto_update_memory
MemoryWithResponse(mem, msg) ==
    IF acfg.auto_update_memory THEN Append(mem, msg) ELSE mem

\* seeded fault: the tool results never reach memory
MemoryAfterTools_Dropped(mem, msgs) == mem

\* self.memory.extend(result) / self.memory.append(result.model_dump())
MemoryAfterTools(mem, msgs) ==
    IF acfg.auto_update_memory THEN mem \o msgs ELSE mem

\* prompt=self.memory if self.auto_update_memory else prompt
GenerateInput == IF acfg.auto_update_memory THEN memory ELSE <<UserPrompt>>

\* seeded fault: the loop goes on after a final stop reason
AfterFinalStop_Continue == "loop"

\* "return" after yielding a stop reason other than TOOL_USE
AfterFinalStop == "done"

\* await asyncio.gather(...): every __execute_tool has ended
AllDone == \A i \in 1..Len(tasks) : tstatus[i] # "running"

\* The tail of a TOOL_USE turn once __process_tools has returned: yield the
\* tool results, extend memory, break out of the async for.
FinishTurn(mem, ow, state, res) ==
    /\ results' = res
    /\ outs' = Push(ow, Out("None", "None", NoRef, ResultsRef(genCalls, Len(res))))
    /\ memory' = MemoryAfterTools(mem, ToolResultMsgs(state, genCalls, Len(res)))
    /\ lastTurn' = [gen |-> genCalls, state |-> state, n |-> Len(res)]
    /\ apc' = "loop"

\* generate_and_action_async up to its loop: _update_memory(prompt)
AgentStart ==
    /\ apc = "start"
    /\ memory' = MemoryWithResponse(memory, UserPrompt)
    /\ apc' = "loop"
    /\ UNCHANGED <<acfg, genCalls, genInput, response, stopReason, tasks,
                   tstatus, results, lastTurn, outs, toolRuns,
                   partials, onlyToolUse, aerr, notAgent>>

\* one more iteration of "for _ in range(self.max_iterations)": the call of
\* super().generate_async
AgentGenerate ==
    /\ apc = "loop"
    /\ genCalls < acfg.max_iterations
    /\ genCalls' = genCalls + 1
    /\ genInput' = GenerateInput
    /\ apc' = "stream"
    /\ response' = NoMsg
    /\ stopReason' = "None"
    /\ tasks' = <<>> /\ tstatus' = <<>> /\ results' = <<>>
    /\ toolRuns' = 0
    /\ UNCHANGED <<acfg, memory, lastTurn, outs, partials, onlyToolUse,
                   aerr, notAgent>>

\* the for statement is exhausted: the generator ends
AgentLoopEnd ==
    /\ apc = "loop"
    /\ genCalls >= acfg.max_iterations
    /\ apc' = "done"
    /\ UNCHANGED <<acfg, genCalls, memory, genInput, response, stopReason,
                   tasks, tstatus, results, lastTurn, outs,
                   toolRuns, partials, onlyToolUse, aerr, notAgent>>

\* a triple (token, None, None)
AgentToken ==
    /\ apc = "stream"
    /\ outs' = Push(outs, Out("tok", "None", NoRef, NoRef))
    /\ UNCHANGED <<acfg, apc, genCalls, memory, genInput, response,
                   stopReason, tasks, tstatus, results, lastTurn,
                   toolRuns, partials, onlyToolUse, aerr, notAgent>>

\* a triple (None, None, message): a tool-call delta of the JSON-chat adapter
AgentPartial ==
    /\ apc = "stream"
    /\ partials < MaxPartials
    /\ partials' = partials + 1
    /\ memory' = MemoryWithResponse(memory, PartialMsg(genCalls, partials + 1))
    /\ outs' = Push(outs, Out("None", "None", NoRef, NoRef))
    /\ UNCHANGED <<acfg, apc, genCalls, genInput, response, stopReason, tasks,
                   tstatus, results, lastTurn, toolRuns,
                   onlyToolUse, aerr, notAgent>>

\* generate_async raises (the transport failed and the retries ran out)
AgentGenerateFails ==
    /\ apc = "stream"
    /\ apc' = "raised"
    /\ aerr' = "TransportError"
    /\ onlyToolUse' = FALSE
    /\ UNCHANGED <<acfg, genCalls, memory, genInput, response, stopReason,
                   tasks, tstatus, results, lastTurn, outs,
                   toolRuns, partials, notAgent>>

\* a terminal triple (None, stop_reason, response), stop_reason not TOOL_USE
AgentStopOther(sr) ==
    /\ apc = "stream"
    /\ sr \in StopReasons \ {"TOOL_USE"}
    /\ response' = AssistantMsg(<<TextItem>>, <<>>)
    /\ stopReason' = sr
    /\ memory' = MemoryWithResponse(memory, FinalMsg(genCalls))
    /\ outs' = Push(outs, Out("None", sr, FinalMsg(genCalls), NoRef))
    /\ apc' = AfterFinalStop
    /\ onlyToolUse' = FALSE
    /\ UNCHANGED <<acfg, genCalls, genInput, tasks, tstatus, results, lastTurn, toolRuns, partials, aerr, notAgent>>

\* a terminal triple (None, TOOL_USE, response): yield it, then
\* __process_tools up to the await of asyncio.gather
AgentToolUse(r) ==
    /\ apc = "stream"
    /\ r \in ToolUseResponses
    /\ response' = r
    /\ stopReason' = "TOOL_USE"
    /\ LET mem1 == MemoryWithResponse(memory, FinalMsg(genCalls))
           ow1 == Push(outs, Out("None", "TOOL_USE", FinalMsg(genCalls), NoRef))
           tl == ToolContent(r)
       IN IF BuildError(tl) # "none"
          THEN /\ apc' = "raised"
               /\ aerr' = BuildError(tl)
               /\ memory' = mem1
               /\ outs' = ow1
               /\ UNCHANGED <<tasks, tstatus, results, lastTurn>>
          ELSE IF TasksOf(tl) = <<>>
          THEN /\ FinishTurn(mem1, ow1, ToolStateOf(tl), <<>>)
               /\ UNCHANGED <<tasks, tstatus, aerr>>
          ELSE /\ tasks' = TasksOf(tl)
               /\ tstatus' = [i \in 1..Len(TasksOf(tl)) |-> "running"]
               /\ apc' = "tools"
               /\ memory' = mem1
               /\ outs' = ow1
               /\ UNCHANGED <<results, lastTurn, aerr>>
    /\ UNCHANGED <<acfg, genCalls, genInput, toolRuns, partials,
                   onlyToolUse, notAgent>>

\* one __execute_tool ends; a body that ran has run on its own
ToolComplete(i, o) ==
    /\ apc = "tools"
    /\ i \in 1..Len(tasks)
    /\ tstatus[i] = "running"
    /\ o \in ExecOutcomes(tasks[i])
    /\ tstatus' = [tstatus EXCEPT ![i] = o]
    /\ toolRuns' = IF o = "invalid" THEN toolRuns ELSE toolRuns + 1
    /\ UNCHANGED <<acfg, apc, genCalls, memory, genInput, response,
                   stopReason, tasks, results, lastTurn, outs, partials,
                   onlyToolUse, aerr, notAgent>>

\* gather has returned: zip(tasks, results), then the tail of the turn
AgentAssemble ==
    /\ apc = "tools"
    /\ AllDone
    /\ LET state == ToolStateOf(ToolContent(response))
       IN FinishTurn(memory, outs, state,
                     [i \in 1..Len(tasks) |->
                        ResultEntry(state, tasks[i], tstatus[i])])
    /\ UNCHANGED <<acfg, genCalls, genInput, response, stopReason, tasks,
                   tstatus, toolRuns, partials, onlyToolUse, aerr,
                   notAgent>>

AgentConfigs ==
    [max_iterations : 1..MaxIter, auto_update_memory : BOOLEAN]

IdleAgent ==
    /\ acfg = [max_iterations |-> 0, auto_update_memory |-> FALSE]
    /\ apc = "idle"
    /\ genCalls = 0
    /\ memory = <<>>
    /\ genInput = <<>>
    /\ response = NoMsg
    /\ stopReason = "None"
    /\ tasks = <<>> /\ tstatus = <<>> /\ results = <<>>
    /\ lastTurn = [gen |-> 0, state |-> "none", n |-> 0]
    /\ outs = <<>>
    /\ toolRuns = 0
    /\ partials = 0
    /\ onlyToolUse = TRUE
    /\ aerr = "none"

\* Agent.__init__: memory is [], nothing generated yet
StartAgent ==
    /\ acfg \in AgentConfigs
    /\ apc = "start"
    /\ genCalls = 0
    /\ memory = <<>>
    /\ genInput = <<>>
    /\ response = NoMsg
    /\ stopReason = "None"
    /\ tasks = <<>> /\ tstatus = <<>> /\ results = <<>>
    /\ lastTurn = [gen |-> 0, state |-> "none", n |-> 0]
    /\ outs = <<>>
    /\ toolRuns = 0
    /\ partials = 0
    /\ onlyToolUse = TRUE
    /\ aerr = "none"

----------------------------------------------------------------------------
(* Adapters: parse_stream_response                                         *)
(*                                                                         *)
(* One action per adapter handles one event of the stream and appends the  *)
(* triples (token, stop_reason, message) that the handling yields.  Text   *)
(* is a sequence of one-character strings; only the Llama adapter looks    *)
(* inside it.                                                              *)

Adapters == {"Claude", "Llama", "MistralChat", "MistralInstruct", "Titan"}

Triple(tok, sr, msg) == [token |-> tok, stop_reason |-> sr, message |-> msg]

\* str.strip() for the blank
RECURSIVE LStrip(_)
LStrip(s) == IF s # <<>> /\ Head(s) = " " THEN LStrip(Tail(s)) ELSE s

RECURSIVE RStrip(_)
RStrip(s) ==
    IF s # <<>> /\ Last(s) = " " THEN RStrip(SubSeq(s, 1, Len(s) - 1)) ELSE s

Strip(s) == RStrip(LStrip(s))

\* str.index(c) and str.rindex(c), counted from 1; 0 where Python raises
Index(s, c) ==
    IF \E i \in 1..Len(s) : s[i] = c
    THEN CHOOSE i \in 1..Len(s) : s[i] = c /\ \A j \in 1..(i - 1) : s[j] # c
    ELSE 0

RIndex(s, c) ==
    IF \E i \in 1..Len(s) : s[i] = c
    THEN CHOOSE i \in 1..Len(s) : s[i] = c /\ \A j \in (i + 1)..Len(s) : s[j] # c
    ELSE 0

\* str.split(sep)
RECURSIVE Split(_, _)
Split(s, sep) ==
    IF Index(s, sep) = 0 THEN <<s>>
    ELSE <<SubSeq(s, 1, Index(s, sep) - 1)>>
           \o Split(SubSeq(s, Index(s, sep) + 1, Len(s)), sep)

\* _parse_tool_calls: "split by commas not inside parentheses"
RECURSIVE TopSplit(_, _, _, _)
TopSplit(s, depth, current, calls) ==
    IF s = <<>>
    THEN IF current # <<>> THEN Append(calls, Strip(current)) ELSE calls
    ELSE IF Head(s) = "("
    THEN TopSplit(Tail(s), depth + 1, Append(current, Head(s)), calls)
    ELSE IF Head(s) = ")"
    THEN TopSplit(Tail(s), depth - 1, Append(current, Head(s)), calls)
    ELSE IF Head(s) = "," /\ depth = 0
    THEN TopSplit(Tail(s), depth, <<>>, Append(calls, Strip(current)))
    ELSE TopSplit(Tail(s), depth, Append(current, Head(s)), calls)

\* one call parses: index('(') and rindex(')') exist and every piece of the
\* argument string unpacks into key, value
CallParses(call) ==
    /\ Index(call, "(") # 0
    /\ RIndex(call, ")") # 0
    /\ LET args_str == SubSeq(call, Index(call, "(") + 1, RIndex(call, ")") - 1)
           args == Split(args_str, ",")
       IN args_str = <<>>
            \/ \A k \in 1..Len(args) : Len(Split(args[k], "=")) = 2

\* _parse_tool_calls(response): "empty" for [], "raise" when a call does
\* not parse, else "calls"
ParseToolCalls(resp) ==
    LET content == Strip(SubSeq(resp, 2, Len(resp) - 1))
        calls == TopSplit(content, 0, <<>>, <<>>)
    IN IF content = <<>> THEN "empty"
       ELSE IF \E k \in 1..Len(calls) : ~CallParses(calls[k]) THEN "raise"
       ELSE IF calls = <<>> THEN "empty"
       ELSE "calls"

LlamaStop(sr) ==
    IF sr = "stop" THEN "END_TURN"
    ELSE IF sr = "length" THEN "MAX_TOKENS" ELSE "ERROR"

\* What the Llama adapter yields once a chunk carries a stop_reason.  The
\* two yields of the tool-call branch are not followed by a return, so the
\* generator goes on to the yield of the plain-text ending.
LlamaFinal(resp, sr) ==
    IF resp = <<>> THEN << Triple("None", "ERROR", "message") >>
    ELSE IF Head(resp) = "[" /\ Last(resp) = "]"
    THEN IF ParseToolCalls(resp) = "raise"
         THEN << Triple("None", "ERROR", "message") >>
         ELSE << Triple("None",
                        IF ParseToolCalls(resp) = "calls"
                        THEN "TOOL_USE" ELSE "ERROR",
                        "message"),
                 Triple("None", LlamaStop(sr), "message") >>
    ELSE << Triple("None", LlamaStop(sr), "message") >>

\* the generation strings a Llama chunk may carry
Fragments ==
    { <<>>, <<" ">>, <<"h">>, <<"[">>, <<"]">>, <<"[", "]">>,
      <<"[", "f", "(", ")", "]">>, <<"[", "f">>,
      <<"(", "a", "=", "1", ")", "]">>, <<"[", "f", "(", "a", ")", "]">>,
      <<"[", "f", "(", ")", ",">>, <<"g", "(", ")", "]">> }

LlamaEvent(gen, sr) ==
    /\ spc = "parse" /\ adapter = "Llama" /\ nev < MaxEvents
    /\ gen \in Fragments
    /\ sr \in {"None", "stop", "length", "other"}
    /\ nev' = nev + 1
    /\ sfull' = sfull \o gen
    /\ IF sr = "None"
       THEN /\ yielded' = Append(yielded, Triple("text", "None", "None"))
            /\ spc' = spc
       ELSE /\ yielded' = Append(yielded, Triple("text", "None", "None"))
                            \o LlamaFinal(Strip(sfull \o gen), sr)
            /\ spc' = "done"
    /\ UNCHANGED <<adapter, sstart, serr, scontent, sevents, stool,
                   notStream>>

ClaudeStop(sr) ==
    IF sr = "end_turn" THEN "END_TURN"
    ELSE IF sr = "stop_sequence" THEN "STOP_SEQUENCE"
    ELSE IF sr = "max_tokens" THEN "MAX_TOKENS"
    ELSE IF sr = "tool_use" THEN "TOOL_USE" ELSE "ERROR"

\* the text of the delta that is the n-th event of the stream
Chunk(n) == ToString(n)

\* seeded fault: the block keeps only the last chunk
TextBlock_LastChunk(full) == [type |-> "text", text |-> <<Last(full)>>]

\* TextBlock(type="text", text=full_response)
TextBlock(full) == [type |-> "text", text |-> full]

\* seeded fault: the text buffer is kept after it was flushed
TextAfterFlush_Kept(full) == full

\* full_response = "" after the text block was appended
TextAfterFlush(full) == <<>>

\* the partial_json fragments of a tool block: together, in this order,
\* they are the document {"a": 1}
JsonFragments == {"{a:", "1}"}

\* seeded fault: a buffer that does not parse is passed on as it is
ToolInput_Raw(buf) == IF buf = <<"{a:", "1}">> THEN "a1" ELSE "raw"

\* json.loads(tool_input), {} on JSONDecodeError
ToolInput(buf) == IF buf = <<"{a:", "1}">> THEN "a1" ELSE "{}"

\* json.loads accepts the buffer
ValidJson(buf) == buf = <<"{a:", "1}">>

\* ToolUseBlock(type="tool_use", ..., input=input_data): it holds no text
ToolUseBlock(input) == [type |-> "tool_use", text |-> <<>>, input |-> input]

\* a content_block_delta
ClaudeDelta(kind, frag) ==
    /\ spc = "parse" /\ adapter = "Claude" /\ nev < MaxBlockEvents
    /\ kind \in {"text_delta", "input_json_delta"}
    /\ frag \in JsonFragments
    /\ kind = "text_delta" => frag = "{a:"
    /\ nev' = nev + 1
    /\ sevents' = Append(sevents, kind)
    /\ IF kind = "text_delta"
       THEN /\ yielded' = Append(yielded, Triple(Chunk(nev + 1), "None", "None"))
            /\ sfull' = Append(sfull, Chunk(nev + 1))
            /\ UNCHANGED stool
       ELSE /\ stool' = Append(stool, frag)
            /\ UNCHANGED <<yielded, sfull>>
    /\ UNCHANGED <<adapter, spc, sstart, serr, scontent, notStream>>

\* a content_block_start: id and name are bound, None for a text block
ClaudeBlockStart(kind) ==
    /\ spc = "parse" /\ adapter = "Claude" /\ nev < MaxBlockEvents
    /\ kind \in {"text", "tool_use"}
    /\ nev' = nev + 1
    /\ sevents' = Append(sevents, IF kind = "text" THEN "start_text"
                                                  ELSE "start_tool_use")
    /\ sstart' = kind
    /\ UNCHANGED <<adapter, spc, yielded, sfull, serr, scontent, stool,
                   notStream>>

\* a content_block_stop: a TextBlock if text was accumulated, else a
\* ToolUseBlock(id=id, name=name, ...), which needs both to be strings
ClaudeBlockStop ==
    /\ spc = "parse" /\ adapter = "Claude" /\ nev < MaxBlockEvents
    /\ nev' = nev + 1
    /\ sevents' = Append(sevents, "stop")
    /\ IF sfull # <<>> THEN /\ scontent' = Append(scontent, TextBlock(sfull))
                            /\ sfull' = TextAfterFlush(sfull)
                            /\ UNCHANGED <<spc, serr, stool>>
       ELSE IF sstart = "tool_use"
       THEN /\ scontent' = Append(scontent, ToolUseBlock(ToolInput(stool)))
            /\ stool' = <<>>
            /\ UNCHANGED <<sfull, spc, serr>>
       ELSE /\ spc' = "raised"
            /\ serr' = IF sstart = "unset"
                       THEN "UnboundLocalError" ELSE "ValidationError"
            /\ UNCHANGED <<sfull, scontent, stool>>
    /\ UNCHANGED <<adapter, yielded, sstart, notStream>>

\* a message_delta
ClaudeMessageDelta(sr) ==
    /\ spc = "parse" /\ adapter = "Claude" /\ nev < MaxBlockEvents
    /\ sr \in {"None", "end_turn", "stop_sequence", "max_tokens", "tool_use",
               "other"}
    /\ nev' = nev + 1
    /\ sevents' = Append(sevents, "message_delta")
    /\ IF sr = "None" THEN UNCHANGED <<yielded, spc>>
       ELSE /\ yielded' = Append(yielded, Triple("None", ClaudeStop(sr), "message"))
            /\ spc' = "done"
    /\ UNCHANGED <<adapter, sfull, sstart, serr, scontent, stool, notStream>>

MistralStop(sr) ==
    IF sr = "stop" THEN "END_TURN"
    ELSE IF sr = "tool_calls" THEN "TOOL_USE"
    ELSE IF sr = "length" THEN "MAX_TOKENS" ELSE "ERROR"

\* MistralChat: a chunk with a stop_reason.  With no text accumulated the
\* message is built with content=None, which MessageBlock rejects.
MistralChatStop(sr) ==
    /\ spc = "parse" /\ adapter = "MistralChat" /\ nev < MaxEvents
    /\ sr \in {"stop", "tool_calls", "length", "other"}
    /\ nev' = nev + 1
    /\ IF sfull = <<>>
       THEN /\ spc' = "raised"
            /\ serr' = "ValidationError"
            /\ UNCHANGED yielded
       ELSE /\ yielded' = Append(yielded, Triple("None", MistralStop(sr), "message"))
            /\ spc' = "done"
            /\ UNCHANGED serr
    /\ UNCHANGED <<adapter, sfull, sstart, scontent, sevents, stool,
                   notStream>>

\* MistralChat: a chunk without stop_reason, carrying content, tool_calls
\* or neither
MistralChatChunk(kind) ==
    /\ spc = "parse" /\ adapter = "MistralChat" /\ nev < MaxEvents
    /\ kind \in {"content", "tool_calls", "neither"}
    /\ nev' = nev + 1
    /\ IF kind = "content"
       THEN /\ yielded' = Append(yielded, Triple("text", "None", "None"))
            /\ sfull' = Append(sfull, "h")
       ELSE IF kind = "tool_calls"
       THEN /\ yielded' = Append(yielded, Triple("None", "None", "message"))
            /\ sfull' = sfull
       ELSE UNCHANGED <<yielded, sfull>>
    /\ UNCHANGED <<adapter, spc, sstart, serr, scontent, sevents, stool,
                   notStream>>

\* MistralInstruct: one chunk of outputs[0]
MistralInstructEvent(sr) ==
    /\ spc = "parse" /\ adapter = "MistralInstruct" /\ nev < MaxEvents
    /\ sr \in {"None", "stop", "length", "other"}
    /\ nev' = nev + 1
    /\ IF sr = "None"
       THEN /\ yielded' = Append(yielded, Triple("text", "None", "None"))
            /\ sfull' = Append(sfull, "h")
            /\ spc' = spc
       ELSE /\ yielded' = Append(yielded, Triple("None", LlamaStop(sr), "message"))
            /\ sfull' = sfull
            /\ spc' = "done"
    /\ UNCHANGED <<adapter, sstart, serr, scontent, sevents, stool,
                   notStream>>

TitanStop(cr) ==
    IF cr = "FINISH" THEN "END_TURN"
    ELSE IF cr = "LENGTH" THEN "MAX_TOKENS"
    ELSE IF cr = "STOP" THEN "STOP_SEQUENCE" ELSE "ERROR"

\* Titan: one chunk; outputText is yielded before completionReason is read
TitanEvent(cr) ==
    /\ spc = "parse" /\ adapter = "Titan" /\ nev < MaxEvents
    /\ cr \in {"None", "FINISH", "LENGTH", "STOP", "other"}
    /\ nev' = nev + 1
    /\ sfull' = Append(sfull, "h")
    /\ IF cr = "None"
       THEN /\ yielded' = Append(yielded, Triple("text", "None", "None"))
            /\ spc' = spc
       ELSE /\ yielded' = yielded \o << Triple("text", "None", "None"),
                                        Triple("None", TitanStop(cr), "message") >>
            /\ spc' = "done"
    /\ UNCHANGED <<adapter, sstart, serr, scontent, sevents, stool,
                   notStream>>

\* the stream has no more events: the for loop and the generator end
StreamExhausted ==
    /\ spc = "parse"
    /\ spc' = "done"
    /\ UNCHANGED <<adapter, nev, yielded, sfull, sstart, serr, scontent, sevents, stool,
                   notStream>>

IdleStream ==
    /\ adapter = "none"
    /\ spc = "idle"
    /\ nev = 0
    /\ yielded = <<>>
    /\ sfull = <<>>
    /\ sstart = "unset"
    /\ serr = "none"
    /\ scontent = <<>>
    /\ sevents = <<>>
    /\ stool = <<>>

StartStream ==
    /\ adapter \in Adapters
    /\ spc = "parse"
    /\ nev = 0
    /\ yielded = <<>>
    /\ sfull = <<>>
    /\ sstart = "unset"
    /\ serr = "none"
    /\ scontent = <<>>
    /\ sevents = <<>>
    /\ stool = <<>>

----------------------------------------------------------------------------
(* One call of a client                                                    *)
(*   "generate"  LLMClient.generate (client.py): prompt handling, then the *)
(*               loop whose try block builds the request and invokes       *)
(*   "sync"      Client.generate (client/sync_client.py): _process_prompt, *)
(*               prepare_request once, then _handle_retry_logic_sync       *)
(*               around the transport only                                 *)
(*   "stream"    AsyncClient.generate_async: _process_prompt, then         *)
(*               _generate_stream (prepare_request_async + transport),     *)
(*               run once directly and again under                         *)
(*               _handle_retry_logic_stream after any exception            *)
(* The retry settings of the call are rcfg; its path names the client.     *)

\* the dialects whose prepare operation accepts tools
ToolsSupported(a) == a \notin {"MistralInstruct", "Titan"}

\* seeded fault: the no-tool dialect builds the request anyway
PrepareRaises_Never(req) == FALSE

\* if tools: raise ValueError(...) at the head of prepare_request and
\* prepare_request_async of MistralInstruct and Titan
PrepareRaises(req) == req.tools /\ ~ToolsSupported(req.adapter)

\* self.memory: None, or a list of messages
NoMemory == [enabled |-> FALSE, msgs |-> <<>>]
Memory(m) == [enabled |-> TRUE, msgs |-> m]

\* what reaches the adapter: the string prompt, a list of messages or None
InvokeStr == [kind |-> "str", msgs |-> <<>>]
InvokeMsgs(m) == [kind |-> "msgs", msgs |-> m]
InvokeNone == [kind |-> "None", msgs |-> <<>>]
InvokeOf(mem) == IF mem.enabled THEN InvokeMsgs(mem.msgs) ELSE InvokeNone

\* bool(self.memory): a non-empty list
Truthy(mem) == mem.enabled /\ mem.msgs # <<>>

\* BaseClient._process_prompt(prompt, auto_update_memory):
\* [error, memory, invoke]; error "none" when it returns
ProcessPrompt(prompt, aum, mem) ==
    IF prompt = "str"
    THEN IF aum /\ Truthy(mem)
         THEN [error |-> "ModelMemoryException", memory |-> mem,
               invoke |-> InvokeNone]
         ELSE [error |-> "none", memory |-> mem, invoke |-> InvokeStr]
    ELSE LET m2 == IF mem.enabled /\ aum
                   THEN Memory(Append(mem.msgs, "prompt")) ELSE mem
         IN [error |-> "none", memory |-> m2, invoke |-> InvokeOf(m2)]

\* the head of LLMClient.generate: "if self.memory is not None and
\* auto_update_memory"
GeneratePrompt(prompt, aum, mem) ==
    IF mem.enabled /\ aum
    THEN IF prompt = "str"
         THEN [error |-> "ValueError_Prompt", memory |-> mem,
               invoke |-> InvokeNone]
         ELSE [error |-> "none", memory |-> Memory(Append(mem.msgs, "prompt")),
               invoke |-> InvokeMsgs(Append(mem.msgs, "prompt"))]
    ELSE [error |-> "none", memory |-> mem,
          invoke |-> IF prompt = "str" THEN InvokeStr
                     ELSE InvokeMsgs(<<"prompt">>)]

\* self.memory.append(response_msg.model_dump()) when memory is not None
\* and auto_update_memory
MemoryWithReply(mem) ==
    IF mem.enabled /\ creq.auto_update_memory
    THEN Memory(Append(mem.msgs, "reply")) ELSE mem

\* the adapters whose stream can carry a message before its last triple:
\* MistralChat's tool-call deltas, Llama's first stop triple of a tool call
PartialAdapters == {"MistralChat", "Llama"}

\* generate_async's append for every triple whose message is not None:
\* n of them before the terminal triple
MemoryWithPartials(mem, n) ==
    IF mem.enabled /\ creq.auto_update_memory
    THEN Memory(mem.msgs \o [i \in 1..n |-> "partial"]) ELSE mem

\* the except clause of the retry loops, for the call's own counters
CallHandleFailure(kind, log, loopPc) ==
    IF Caught(kind) /\ MayRetry(cattempt)
    THEN /\ clog' = Append(log, "sleep")
         /\ cattempt' = cattempt + 1
         /\ cpc' = loopPc
         /\ cerr' = cerr
    ELSE /\ clog' = log
         /\ cattempt' = cattempt
         /\ cpc' = "raised"
         /\ cerr' = kind

\* the prompt handling at the head of the call
CallProcessPrompt ==
    /\ cpc = "start"
    /\ LET r == IF rcfg.path = "generate"
                THEN GeneratePrompt(creq.prompt, creq.auto_update_memory, cmem)
                ELSE ProcessPrompt(creq.prompt, creq.auto_update_memory, cmem)
       IN /\ cmem' = r.memory
          /\ cinvoke' = r.invoke
          /\ IF r.error # "none"
             THEN cpc' = "raised" /\ cerr' = r.error
             ELSE /\ cerr' = cerr
                  /\ cpc' = IF rcfg.path = "generate" THEN "loop"
                            ELSE IF rcfg.path = "sync" THEN "prepare"
                            ELSE "direct"
    /\ UNCHANGED <<creq, cattempt, clog, notCall>>

\* Client.generate: prepare_request, outside the retry wrapper
CallPrepareOnce ==
    /\ cpc = "prepare"
    /\ IF PrepareRaises(creq)
       THEN /\ clog' = Append(clog, "prepare_raises")
            /\ cpc' = "raised"
            /\ cerr' = "ValueError_Tools"
       ELSE /\ clog' = Append(clog, "prepare")
            /\ cpc' = "loop"
            /\ cerr' = cerr
    /\ UNCHANGED <<creq, cattempt, cmem, cinvoke, notCall>>

\* one iteration of the single-shot loop: LLMClient.generate builds the
\* request and invokes the transport, Client.generate's wrapper invokes the
\* transport; o is how the transport ends
CallAttempt(o) ==
    /\ cpc = "loop"
    /\ InRange(cattempt)
    /\ o \in FailKinds \cup {"ok"}
    /\ IF rcfg.path = "generate" /\ PrepareRaises(creq)
       THEN /\ clog' = Append(clog, "prepare_raises")
            /\ cpc' = "raised"
            /\ cerr' = "ValueError_Tools"
            /\ UNCHANGED <<cattempt, cmem>>
       ELSE LET log == IF rcfg.path = "generate"
                       THEN clog \o <<"prepare", "transport">>
                       ELSE Append(clog, "transport")
            IN IF o = "ok"
               THEN /\ clog' = log
                    /\ cmem' = MemoryWithReply(cmem)
                    /\ cpc' = "returned"
                    /\ UNCHANGED <<cattempt, cerr>>
               ELSE /\ CallHandleFailure(o, log, "loop")
                    /\ cmem' = cmem
    /\ UNCHANGED <<creq, cinvoke, notCall>>

\* the loop ran out of attempts (only with max_retries = 0)
CallLoopExhausted ==
    /\ cpc \in {"loop", "retry"}
    /\ ~InRange(cattempt)
    /\ cpc' = "raised"
    /\ cerr' = "MaxRetriesException"
    /\ UNCHANGED <<creq, cattempt, cmem, cinvoke, clog, notCall>>

\* one run of _generate_stream: by generate_async itself ("direct", every
\* exception caught) or from _handle_retry_logic_stream ("retry"); n triples
\* with a message come before the stream ends or fails
CallStreamAttempt(o, n) ==
    /\ cpc \in {"direct", "retry"}
    /\ cpc = "retry" => InRange(cattempt)
    /\ o \in FailKinds \cup {"ok"}
    /\ n \in 0..MaxPartials
    /\ n > 0 => creq.adapter \in PartialAdapters
    /\ IF PrepareRaises(creq)
       THEN /\ clog' = Append(clog, "prepare_raises")
            /\ IF cpc = "direct"
               THEN cpc' = "retry" /\ cerr' = cerr
               ELSE cpc' = "raised" /\ cerr' = "ValueError_Tools"
            /\ UNCHANGED <<cattempt, cmem>>
       ELSE IF o = "ok"
       THEN /\ clog' = clog \o <<"prepare", "transport">>
            /\ cmem' = MemoryWithReply(MemoryWithPartials(cmem, n))
            /\ cpc' = "returned"
            /\ UNCHANGED <<cattempt, cerr>>
       ELSE IF cpc = "direct"
       THEN /\ clog' = clog \o <<"prepare", "transport">>
            /\ cmem' = MemoryWithPartials(cmem, n)
            /\ cpc' = "retry"
            /\ UNCHANGED <<cattempt, cerr>>
       ELSE /\ CallHandleFailure(o, clog \o <<"prepare", "transport">>, "retry")
            /\ cmem' = MemoryWithPartials(cmem, n)
    /\ UNCHANGED <<creq, cinvoke, notCall>>

CallRequests ==
    [adapter : Adapters, tools : BOOLEAN, prompt : {"str", "msgs"},
     memory : {NoMemory, Memory(<<>>), Memory(<<"old">>)},
     auto_update_memory : BOOLEAN]

IdleCall ==
    /\ creq = [adapter |-> "none", tools |-> FALSE, prompt |-> "str",
               memory |-> NoMemory, auto_update_memory |-> FALSE]
    /\ cpc = "idle"
    /\ cattempt = 0
    /\ cmem = NoMemory
    /\ cinvoke = InvokeNone
    /\ clog = <<>>
    /\ cerr = "none"

\* a client constructed with its memory argument, the call not yet begun
StartCall ==
    /\ creq \in CallRequests
    /\ cpc = "start"
    /\ cattempt = 0
    /\ cmem = creq.memory
    /\ cinvoke = InvokeNone
    /\ clog = <<>>
    /\ cerr = "none"

----------------------------------------------------------------------------
(* Agent memory management: _update_memory and _manage_memory              *)
(*                                                                         *)
(* self.memory is the list that generate_and_action_async passes to every  *)
(* generate call.  self._conversation_history is set to [] by __init__ and *)
(* written by no other method than _manage_memory; what it holds when      *)
(* _manage_memory runs is therefore the caller's, and a run starts from    *)
(* any well-formed history.                                                *)

UserMessage == [kind |-> "user", id |-> 0]
ToolCallMessage(k) == [kind |-> "call", id |-> k]
ToolResultMessage(k) == [kind |-> "result", id |-> k]

\* every tool-result message follows the tool-call message it answers
NoOrphan(h) ==
    \A i \in 1..Len(h) :
        h[i].kind = "result" =>
            \E j \in 1..(i - 1) : h[j].kind = "call" /\ h[j].id = h[i].id

\* h[-n:] for n >= 1
Tail_n(h, n) == IF Len(h) <= n THEN h ELSE SubSeq(h, Len(h) - n + 1, Len(h))

\* _manage_memory: if len(history) > limit: history = history[-limit:]
ManageMemory(h, limit) == IF Len(h) > limit THEN Tail_n(h, limit) ELSE h

\* _update_memory(prompt): the prompt's n messages are appended to
\* self.memory, then _manage_memory() prunes self._conversation_history
UpdateMemory(n) ==
    /\ mlast # "idle"
    /\ mupdates < MaxUpdates
    /\ n \in 1..2
    /\ mupdates' = mupdates + 1
    /\ mmemory' = mmemory \o [i \in 1..n |-> UserMessage]
    /\ mhist' = ManageMemory(mhist, mlimit)
    /\ mlast' = "update"
    /\ UNCHANGED <<mlimit, mturns, notMemory>>

\* a TOOL_USE turn of generate_and_action_async: the assistant's tool-call
\* message and the tool-result message are appended to self.memory
MemoryToolTurn ==
    /\ mlast # "idle"
    /\ mturns < MaxUpdates
    /\ mturns' = mturns + 1
    /\ mmemory' = mmemory \o <<ToolCallMessage(mturns + 1),
                                ToolResultMessage(mturns + 1)>>
    /\ mlast' = "turn"
    /\ UNCHANGED <<mlimit, mhist, mupdates, notMemory>>

\* the well-formed histories of at most MaxHist messages
Histories ==
    { h \in UNION { [1..n -> {UserMessage, ToolCallMessage(0),
                              ToolResultMessage(0)}] : n \in 0..MaxHist } :
        NoOrphan(h) }

IdleMemory ==
    /\ mlimit = 0
    /\ mmemory = <<>>
    /\ mhist = <<>>
    /\ mupdates = 0
    /\ mturns = 0
    /\ mlast = "idle"

\* Agent.__init__(memory_limit=L): memory is []
StartMemory ==
    /\ mlimit \in 1..MaxLimit
    /\ mmemory = <<>>
    /\ mhist \in Histories
    /\ mupdates = 0
    /\ mturns = 0
    /\ mlast = "none"

----------------------------------------------------------------------------
(* Adapters: parse_response                                                *)
(*                                                                         *)
(* The payload is reduced to what the parsers read: the finish signal, the *)
(* role the backend reports, and the shape of the generated text ("plain", *)
(* "bracketed" for text that starts with [ and ends with ], "empty"), and  *)
(* whether it holds tool-use content items or a tool_calls list.           *)

\* the finish signals of the backends, and "other" for any other string
FinishSignals ==
    {"stop", "length", "tool_calls", "end_turn", "max_tokens",
     "stop_sequence", "tool_use", "FINISH", "LENGTH", "STOP", "other"}

\* tools: the message holds a tool-use content item or a tool_calls list
Parsed(role, sr, tools) ==
    [role |-> role, stop |-> sr, tools |-> tools, error |-> "none"]
ParseFailed(e) == [role |-> "none", stop |-> "None", tools |-> FALSE, error |-> e]
NotParsed ==
    [role |-> "none", stop |-> "None", tools |-> FALSE, error |-> "none"]

\* ClaudeImplementation.parse_response: the chain over chunk["stop_reason"]
ClaudeParseStop(sig) ==
    IF sig = "end_turn" THEN "END_TURN"
    ELSE IF sig = "stop_sequence" THEN "STOP_SEQUENCE"
    ELSE IF sig = "max_token" THEN "MAX_TOKENS"
    ELSE IF sig = "tool_use" THEN "TOOL_USE" ELSE "ERROR"

\* MistralChatImplementation.parse_response: chunk["finish_reason"]
MistralChatParseStop(sig) ==
    IF sig = "stop" THEN "END_TURN"
    ELSE IF sig = "tool_calls" THEN "TOOL_USE"
    ELSE IF sig = "length" THEN "MAX_TOKENS" ELSE "ERROR"

\* the parsers of the plain-text dialects: stop, length, else ERROR
TextParseStop(sig) ==
    IF sig = "stop" THEN "END_TURN"
    ELSE IF sig = "length" THEN "MAX_TOKENS" ELSE "ERROR"

\* TitanImplementation.parse_response: completionReason
TitanParseStop(sig) ==
    IF sig = "FINISH" THEN "END_TURN"
    ELSE IF sig = "LENGTH" THEN "MAX_TOKENS"
    ELSE IF sig = "STOP" THEN "STOP_SEQUENCE" ELSE "ERROR"

\* role=chunk["role"], content=chunk["content"]
ParseClaude ==
    /\ ppc = "parse" /\ preq.adapter = "Claude"
    /\ pres' = Parsed(preq.role, ClaudeParseStop(preq.signal), preq.tooluse)
    /\ ppc' = "returned"
    /\ UNCHANGED <<preq, notParse>>

\* response_text[0] of the stripped generation, then the tool-call test,
\* which returns a message of role "tool"
ParseLlama ==
    /\ ppc = "parse" /\ preq.adapter = "Llama"
    /\ IF preq.text = "empty"
       THEN pres' = ParseFailed("IndexError") /\ ppc' = "raised"
       ELSE /\ pres' = IF preq.text = "bracketed"
                       THEN Parsed("tool", "TOOL_USE", FALSE)
                       ELSE Parsed("assistant", TextParseStop(preq.signal),
                                   FALSE)
            /\ ppc' = "returned"
    /\ UNCHANGED <<preq, notParse>>

\* role=chunk["message"]["role"], tool_calls=chunk["message"]["tool_calls"]
ParseMistralChat ==
    /\ ppc = "parse" /\ preq.adapter = "MistralChat"
    /\ pres' = Parsed(preq.role, MistralChatParseStop(preq.signal),
                      preq.tooluse)
    /\ ppc' = "returned"
    /\ UNCHANGED <<preq, notParse>>

ParseMistralInstruct ==
    /\ ppc = "parse" /\ preq.adapter = "MistralInstruct"
    /\ pres' = Parsed("assistant", TextParseStop(preq.signal), FALSE)
    /\ ppc' = "returned"
    /\ UNCHANGED <<preq, notParse>>

ParseTitan ==
    /\ ppc = "parse" /\ preq.adapter = "Titan"
    /\ pres' = Parsed("assistant", TitanParseStop(preq.signal), FALSE)
    /\ ppc' = "returned"
    /\ UNCHANGED <<preq, notParse>>

\* the backends report the role "assistant" for a generated message
Payloads ==
    [adapter : Adapters, signal : FinishSignals, role : {"assistant"},
     text : {"plain", "bracketed", "empty"}, tooluse : BOOLEAN]

IdleParse ==
    /\ preq = [adapter |-> "none", signal |-> "other", role |-> "assistant",
               text |-> "plain", tooluse |-> FALSE]
    /\ ppc = "idle"
    /\ pres = NotParsed

StartParse ==
    /\ preq \in Payloads
    /\ ppc = "parse"
    /\ pres = NotParsed

----------------------------------------------------------------------------
(* Agent.tool: the registration decorator                                  *)
(*                                                                         *)
(* tool_functions and _tool_cache are class attributes, empty when the     *)
(* class is created.  A wrapper is identified by the callable it wraps.    *)

RegNames == {"tool_a", "tool_b"}
Callables == {"first_tool", "second_tool"}
Descriptions == {"First tool", "Second tool"}

NoTool == [function |-> "none", metadata |-> "none"]
NoWrapper == "none"

\* tool_info: the wrapper and metadata.model_dump()
ToolInfo(func, description) == [function |-> func, metadata |-> description]

NoUse ==
    [name |-> "none", func |-> "none", metadata |-> "none",
     registered |-> FALSE, returned |-> "none", error |-> "none"]

\* @Agent.tool(ToolMetadata(name=name, description=description)) applied to
\* func: a name found in _tool_cache returns the cached wrapper at once;
\* otherwise the entry and the cache are written and the new wrapper returned
RegisterTool(name, func, description) ==
    /\ regCount < MaxRegistrations
    /\ regCount' = regCount + 1
    /\ IF regCache[name] # NoWrapper
       THEN /\ regLast' = [name |-> name, func |-> func,
                           metadata |-> description, registered |-> TRUE,
                           returned |-> regCache[name], error |-> "none"]
            /\ UNCHANGED <<regFunctions, regCache>>
       ELSE /\ regFunctions' =
                [regFunctions EXCEPT ![name] = ToolInfo(func, description)]
            /\ regCache' = [regCache EXCEPT ![name] = func]
            /\ regLast' = [name |-> name, func |-> func,
                           metadata |-> description, registered |-> FALSE,
                           returned |-> func, error |-> "none"]
    /\ UNCHANGED notRegistry

IdleRegistry ==
    /\ regFunctions = [n \in RegNames |-> NoTool]
    /\ regCache = [n \in RegNames |-> NoWrapper]
    /\ regLast = NoUse
    /\ regCount = 0

StartRegistry == IdleRegistry

----------------------------------------------------------------------------
(* BaseClient._get_or_create_model_implementation, called by __init__.     *)
(* Every client is constructed on its own thread; the threads interleave   *)
(* between the statements of the method.  The lru_cache around the method  *)
(* is keyed by (self, model_name), so a new client never hits it.          *)

Clients == 1..MaxClients

\* the keys of MODEL_IMPLEMENTATIONS used
ModelNames == {"CLAUDE_3_HAIKU", "LLAMA_3_2_1B"}

\* if model_name not in self._model_implementations
ImplLookup(c) ==
    /\ ipc[c] = "init"
    /\ ipc' = [ipc EXCEPT ![c] =
                  IF implStore[iname[c]] = 0 THEN "create" ELSE "fetch"]
    /\ UNCHANGED <<iname, iheld, implStore, implMade, notImpl>>

\* self._model_implementations[model_name] = MODEL_IMPLEMENTATIONS[model_name]()
ImplCreate(c) ==
    /\ ipc[c] = "create"
    /\ implMade' = Append(implMade, iname[c])
    /\ implStore' = [implStore EXCEPT ![iname[c]] = Len(implMade) + 1]
    /\ ipc' = [ipc EXCEPT ![c] = "fetch"]
    /\ UNCHANGED <<iname, iheld, notImpl>>

\* return self._model_implementations[model_name], kept as
\* self.model_implementation
ImplFetch(c) ==
    /\ ipc[c] = "fetch"
    /\ iheld' = [iheld EXCEPT ![c] = implStore[iname[c]]]
    /\ ipc' = [ipc EXCEPT ![c] = "built"]
    /\ UNCHANGED <<iname, implStore, implMade, notImpl>>

IdleImpl ==
    /\ iname = [c \in Clients |-> "none"]
    /\ ipc = [c \in Clients |-> "idle"]
    /\ iheld = [c \in Clients |-> 0]
    /\ implStore = [n \in ModelNames |-> 0]
    /\ implMade = <<>>

\* the class attribute _model_implementations is {} when the class is made
StartImpl ==
    /\ iname \in [Clients -> ModelNames]
    /\ ipc = [c \in Clients |-> "init"]
    /\ iheld = [c \in Clients |-> 0]
    /\ implStore = [n \in ModelNames |-> 0]
    /\ implMade = <<>>

----------------------------------------------------------------------------
(* The execution of tool bodies by __execute_tool, once the parameters     *)
(* passed validation.  Agent._executor is a class attribute: one           *)
(* ThreadPoolExecutor for all Agent instances.  A body is in the           *)
(* executor's work queue, on one of its worker threads, or on the event    *)
(* loop.                                                                   *)

Agents == 1..MaxAgents

\* ThreadPoolExecutor(max_workers=10)
MaxWorkers == 10

Places == {"queue", "worker", "loop"}

RECURSIVE SumOver(_, _)
SumOver(S, f) ==
    IF S = {} THEN 0
    ELSE LET x == CHOOSE y \in S : TRUE IN f[x] + SumOver(S \ {x}, f)

\* bodies at a place, over all agents and both kinds of tool
At(place) == SumOver({k \in DOMAIN xbody : k[3] = place}, xbody)
InFlight == SumOver(DOMAIN xbody, xbody)

\* seeded fault: the synchronous body is called where __execute_tool runs
StartPlace_Inline(is_async) == "loop"

\* await tool_data["function"](**params) if tool_data["is_async"]
\* else await loop.run_in_executor(self._executor, lambda: ...)
StartPlace(is_async) == IF is_async THEN "loop" ELSE "queue"

\* __execute_tool of agent a reaches "Execute the tool"
ExecuteTool(a, is_async) ==
    /\ InFlight < MaxInFlight
    /\ xbody' = [xbody EXCEPT ![<<a, is_async, StartPlace(is_async)>>] = @ + 1]
    /\ UNCHANGED notExec

\* the executor hands a queued work item to a worker thread, of which it
\* keeps at most max_workers
WorkerStart(a, is_async) ==
    /\ xbody[<<a, is_async, "queue">>] > 0
    /\ At("worker") < MaxWorkers
    /\ xbody' = [xbody EXCEPT ![<<a, is_async, "queue">>] = @ - 1,
                              ![<<a, is_async, "worker">>] = @ + 1]
    /\ UNCHANGED notExec

\* a body returns or raises: on its worker thread, or on the event loop
BodyEnds(a, is_async, place) ==
    /\ place \in {"worker", "loop"}
    /\ xbody[<<a, is_async, place>>] > 0
    /\ xbody' = [xbody EXCEPT ![<<a, is_async, place>>] = @ - 1]
    /\ UNCHANGED notExec

IdleExec == xbody = [k \in Agents \X BOOLEAN \X Places |-> 0]

StartExec == IdleExec

----------------------------------------------------------------------------
(* The async transport clients: BaseClient._get_async_client and close,    *)
(* AWSClientManager.get_async_client and close_async_clients.  The cache   *)
(* key is the region (no extra keyword arguments are passed).              *)

Regions == {"us-east-1", "us-west-2"}
Transports == 1..MaxTransports

\* _get_async_client up to the await inside get_async_client: a cached
\* transport is returned at once, otherwise one is being created
TransportLookup(c) ==
    /\ tpc[c] = "new"
    /\ IF tcache[tregion[c]] # 0
       THEN /\ theld' = [theld EXCEPT ![c] = tcache[tregion[c]]]
            /\ tpc' = [tpc EXCEPT ![c] = "open"]
            /\ UNCHANGED <<tcache, tmade>>
       ELSE /\ tmade + Cardinality({d \in Clients : tpc[d] = "creating"})
                  < MaxTransports
            /\ tpc' = [tpc EXCEPT ![c] = "creating"]
            /\ UNCHANGED <<theld, tcache>>
    /\ UNCHANGED <<tregion, tmade, tclosed, notTransport>>

\* create_client(...).__aenter__() has returned a new transport: it is
\* stored under the key and the cache entry is returned
TransportCreated(c) ==
    /\ tpc[c] = "creating"
    /\ tmade' = tmade + 1
    /\ tcache' = [tcache EXCEPT ![tregion[c]] = tmade + 1]
    /\ theld' = [theld EXCEPT ![c] = tmade + 1]
    /\ tpc' = [tpc EXCEPT ![c] = "open"]
    /\ UNCHANGED <<tregion, tclosed, notTransport>>

\* the transports of the cache
Cached == {tcache[r] : r \in Regions} \ {0}

\* BaseClient.close: __aexit__ of the client's own transport, then
\* close_async_clients: __aexit__ of every cached transport and clear()
TransportClose(c) ==
    /\ tpc[c] \in {"new", "open"}
    /\ LET own == IF theld[c] # 0 THEN {theld[c]} ELSE {}
       IN tclosed' = [t \in Transports |->
                        tclosed[t] + (IF t \in own THEN 1 ELSE 0)
                                   + (IF t \in Cached THEN 1 ELSE 0)]
    /\ theld' = [theld EXCEPT ![c] = 0]
    /\ tpc' = [tpc EXCEPT ![c] = "new"]
    /\ tcache' = [r \in Regions |-> 0]
    /\ UNCHANGED <<tregion, tmade, notTransport>>

IdleTransport ==
    /\ tregion = [c \in Clients |-> "none"]
    /\ tpc = [c \in Clients |-> "idle"]
    /\ theld = [c \in Clients |-> 0]
    /\ tcache = [r \in Regions |-> 0]
    /\ tmade = 0
    /\ tclosed = [t \in Transports |-> 0]

\* clients constructed (self._async_client = None), the class-level cache
\* empty
StartTransport ==
    /\ tregion \in [Clients -> Regions]
    /\ tpc = [c \in Clients |-> "new"]
    /\ theld = [c \in Clients |-> 0]
    /\ tcache = [r \in Regions |-> 0]
    /\ tmade = 0
    /\ tclosed = [t \in Transports |-> 0]

----------------------------------------------------------------------------
(* Specifications *)

InitTransport ==
    /\ StartTransport
    /\ IdleRetry
    /\ IdleAgent
    /\ IdleStream
    /\ IdleCall
    /\ IdleMemory
    /\ IdleParse
    /\ IdleRegistry
    /\ IdleImpl
    /\ IdleExec

NextTransport ==
    \/ \E c \in Clients : TransportLookup(c)
    \/ \E c \in Clients : TransportCreated(c)
    \/ \E c \in Clients : TransportClose(c)

SpecTransport == InitTransport /\ [][NextTransport]_vars

InitExec ==
    /\ StartExec
    /\ IdleRetry
    /\ IdleAgent
    /\ IdleStream
    /\ IdleCall
    /\ IdleMemory
    /\ IdleParse
    /\ IdleRegistry
    /\ IdleImpl
    /\ IdleTransport

NextExec ==
    \/ \E a \in Agents, k \in BOOLEAN : ExecuteTool(a, k)
    \/ \E a \in Agents, k \in BOOLEAN : WorkerStart(a, k)
    \/ \E a \in Agents, k \in BOOLEAN, p \in Places : BodyEnds(a, k, p)

SpecExec == InitExec /\ [][NextExec]_vars

InitImpl ==
    /\ StartImpl
    /\ IdleRetry
    /\ IdleAgent
    /\ IdleStream
    /\ IdleCall
    /\ IdleMemory
    /\ IdleParse
    /\ IdleRegistry
    /\ IdleExec
    /\ IdleTransport

NextImpl ==
    \/ \E c \in Clients : ImplLookup(c)
    \/ \E c \in Clients : ImplCreate(c)
    \/ \E c \in Clients : ImplFetch(c)

SpecImpl == InitImpl /\ [][NextImpl]_vars

InitRetry ==
    /\ StartRetry
    /\ IdleAgent
    /\ IdleStream
    /\ IdleCall
    /\ IdleMemory
    /\ IdleParse
    /\ IdleRegistry
    /\ IdleImpl
    /\ IdleExec
    /\ IdleTransport

NextRetry ==
    \/ \E o \in FailKinds \cup {"ok"} : SyncAttempt(o)
    \/ \E o \in FailKinds \cup {"ok"} : GenerateAttempt(o)
    \/ LoopExhausted
    \/ \E o \in FailKinds \cup {"ok"}, j \in 0..StreamLen : LlmStreamAttempt(o, j)
    \/ LlmLoopSkipped
    \/ StreamInvoke
    \/ StreamYield
    \/ StreamComplete
    \/ \E k \in FailKinds : StreamFail(k)

SpecRetry == InitRetry /\ [][NextRetry]_vars

InitAgent ==
    /\ StartAgent
    /\ IdleRetry
    /\ IdleStream
    /\ IdleCall
    /\ IdleMemory
    /\ IdleParse
    /\ IdleRegistry
    /\ IdleImpl
    /\ IdleExec
    /\ IdleTransport

NextAgent ==
    \/ AgentStart
    \/ AgentGenerate
    \/ AgentLoopEnd
    \/ AgentToken
    \/ AgentPartial
    \/ AgentGenerateFails
    \/ \E sr \in StopReasons \ {"TOOL_USE"} : AgentStopOther(sr)
    \/ \E r \in ToolUseResponses : AgentToolUse(r)
    \/ \E i \in 1..MaxCalls, o \in {"ok", "raised", "invalid"} : ToolComplete(i, o)
    \/ AgentAssemble

SpecAgent == InitAgent /\ [][NextAgent]_vars

InitStream ==
    /\ StartStream
    /\ IdleRetry
    /\ IdleAgent
    /\ IdleCall
    /\ IdleMemory
    /\ IdleParse
    /\ IdleRegistry
    /\ IdleImpl
    /\ IdleExec
    /\ IdleTransport

NextStream ==
    \/ \E g \in Fragments, sr \in {"None", "stop", "length", "other"} :
          LlamaEvent(g, sr)
    \/ \E k \in {"text_delta", "input_json_delta"}, f \in JsonFragments :
           ClaudeDelta(k, f)
    \/ \E k \in {"text", "tool_use"} : ClaudeBlockStart(k)
    \/ ClaudeBlockStop
    \/ \E sr \in {"None", "end_turn", "stop_sequence", "max_tokens",
                   "tool_use", "other"} : ClaudeMessageDelta(sr)
    \/ \E sr \in {"stop", "tool_calls", "length", "other"} : MistralChatStop(sr)
    \/ \E k \in {"content", "tool_calls", "neither"} : MistralChatChunk(k)
    \/ \E sr \in {"None", "stop", "length", "other"} : MistralInstructEvent(sr)
    \/ \E cr \in {"None", "FINISH", "LENGTH", "STOP", "other"} : TitanEvent(cr)
    \/ StreamExhausted

SpecStream == InitStream /\ [][NextStream]_vars

\* the retry settings of the call are a RetryConfig; the retry machine
\* itself stays idle
InitCall ==
    /\ StartCall
    /\ IdleImpl
    /\ IdleExec
    /\ IdleTransport
    /\ rcfg \in RetryConfigs
    /\ rcfg.path \in CallPaths
    /\ rcfg.retry_delay = 1
    /\ rpc = "idle"
    /\ attempt = 0
    /\ rlog = <<>>
    /\ rerr = NoError
    /\ rtok = 0
    /\ delivered = <<>>
    /\ IdleAgent
    /\ IdleStream
    /\ IdleMemory
    /\ IdleParse
    /\ IdleRegistry

NextCall ==
    \/ CallProcessPrompt
    \/ CallPrepareOnce
    \/ \E o \in FailKinds \cup {"ok"} : CallAttempt(o)
    \/ CallLoopExhausted
    \/ \E o \in FailKinds \cup {"ok"}, n \in 0..MaxPartials :
           CallStreamAttempt(o, n)

SpecCall == InitCall /\ [][NextCall]_vars

InitMemory ==
    /\ StartMemory
    /\ IdleRetry
    /\ IdleAgent
    /\ IdleStream
    /\ IdleCall
    /\ IdleParse
    /\ IdleRegistry
    /\ IdleImpl
    /\ IdleExec
    /\ IdleTransport

NextMemory ==
    \/ \E n \in 1..2 : UpdateMemory(n)
    \/ MemoryToolTurn

SpecMemory == InitMemory /\ [][NextMemory]_vars

InitParse ==
    /\ StartParse
    /\ IdleRetry
    /\ IdleAgent
    /\ IdleStream
    /\ IdleCall
    /\ IdleMemory
    /\ IdleRegistry
    /\ IdleImpl
    /\ IdleExec
    /\ IdleTransport

NextParse ==
    \/ ParseClaude
    \/ ParseLlama
    \/ ParseMistralChat
    \/ ParseMistralInstruct
    \/ ParseTitan

SpecParse == InitParse /\ [][NextParse]_vars

InitRegistry ==
    /\ StartRegistry
    /\ IdleRetry
    /\ IdleAgent
    /\ IdleStream
    /\ IdleCall
    /\ IdleMemory
    /\ IdleParse
    /\ IdleImpl
    /\ IdleExec
    /\ IdleTransport

NextRegistry ==
    \E name \in RegNames, func \in Callables, description \in Descriptions :
        RegisterTool(name, func, description)

SpecRegistry == InitRegistry /\ [][NextRegistry]_vars

----------------------------------------------------------------------------
(* Claims about the retry wrappers *)

\* C3: single-shot wrapper, the transport fails transiently N times and then
\* succeeds (max_retries > N): the wrapper returns after exactly N+1
\* invocations and N sleeps, the i-th sleep (from 0) lasting
\* retry_delay * 2^i with exponential backoff and retry_delay without.
C3_RetryThenSuccess ==
    (SingleShot /\ rpc = "returned" /\ AllFailuresTransient) =>
        LET N == Len(Failures) IN
        /\ N < rcfg.max_retries
        /\ Calls = N + 1
        /\ Len(Sleeps) = N
        /\ \A i \in 0..(N - 1) :
              Sleeps[i + 1].d =
                 IF rcfg.exponential_backoff
                 THEN rcfg.retry_delay * Pow2(i)
                 ELSE rcfg.retry_delay

\* two transient failures, then success, with exponential backoff
C3_Witness ==
    /\ SingleShot /\ rpc = "returned" /\ AllFailuresTransient
    /\ rcfg.exponential_backoff
    /\ Len(Failures) = 2

\* C4: single-shot wrapper, every attempt fails transiently: the transport is
\* invoked exactly max_retries times, never more, and then the wrapper raises.
C4_ExhaustedAfterMaxRetries ==
    (SingleShot /\ AllFailuresTransient /\ AllCallsFailed) =>
        /\ Calls <= rcfg.max_retries
        /\ (rpc = "raised" => Calls = rcfg.max_retries)
        /\ (Calls = rcfg.max_retries /\ Calls > 0 => rpc = "raised")

\* three transient failures with max_retries = 3, and the wrapper has raised
C4_Witness ==
    /\ SingleShot /\ AllFailuresTransient /\ AllCallsFailed
    /\ rcfg.max_retries = 3 /\ Calls = 3
    /\ rpc = "raised"

\* C30: AsyncClient.generate_async, every streaming attempt failing
\* transiently: the transport is invoked at most max_retries times in total
\* before the error reaches the caller.
C30_StreamInvocationsBounded ==
    (rcfg.path = "stream" /\ AllFailuresTransient /\ AllCallsFailed) =>
        Calls <= rcfg.max_retries

\* an attempt of the run has succeeded
SomeAttemptSucceeded == \E i \in 1..Len(rlog) : rlog[i].ev = "ok"

\* C37: LLMClient.generate_async completes without raising whenever one of
\* its attempts succeeds, also when that attempt is the last permitted one
\* (attempt index max_retries - 1).
C37_SuccessNeverRaises ==
    (rcfg.path = "generate_async" /\ SomeAttemptSucceeded)
        => rpc = "returned" /\ rerr = NoError

\* C39: for every RetryConfig, max_retries = 0 included, the single-shot
\* retry wrapper invokes the operation at least once before it ends and,
\* when that first invocation succeeds, returns.
C39_InvokedAtLeastOnce ==
    SingleShot =>
        /\ rpc \in {"returned", "raised"} => Calls >= 1
        /\ (Len(rlog) >= 2 /\ rlog[2].ev = "ok") => rpc = "returned"

\* C5: after max_retries unsuccessful transient attempts the wrapper raises
\* one terminal error whose message contains 'Max retries reached' and which
\* wraps the last underlying transport failure.
C5_TerminalErrorWrapsLast ==
    (SingleShot /\ rpc = "raised" /\ AllFailuresTransient /\ AllCallsFailed
       /\ Calls = rcfg.max_retries /\ Calls > 0) =>
        /\ rerr.max_retries_msg
        /\ rerr.wraps = Last(Failures).kind

\* C10: a failure that is neither a timeout nor a throttling error reaches
\* the caller on its first occurrence: nothing follows it in the log (no
\* further call, no sleep), in the single-shot and the streaming path.
C10_NonTransientPropagates ==
    \A i \in 1..Len(rlog) :
        (rlog[i].ev = "fail" /\ rlog[i].kind \notin TransientKinds) =>
            /\ i = Len(rlog)
            /\ rpc = "raised"
            /\ rerr.type = rlog[i].kind

\* the first j tokens of an attempt, and its complete output (the tokens,
\* then the terminal triple, written 0)
FirstTokens(j) == [i \in 1..j |-> i]
CompleteOutput == Append(FirstTokens(StreamLen), 0)

\* what the failed attempts f delivered before they raised, in order
RECURSIVE DeliveredByFailed(_)
DeliveredByFailed(f) ==
    IF f = <<>> THEN <<>>
    ELSE FirstTokens(Head(f).d) \o DeliveredByFailed(Tail(f))

\* the caller has seen the tokens of every failed attempt, then the whole
\* output of the attempt that succeeded
C25_Observed ==
    (rcfg.path = "stream" /\ rpc = "returned" /\ AllFailuresTransient) =>
        delivered = DeliveredByFailed(Failures) \o CompleteOutput

\* what was delivered stays delivered
C25_NoRetraction ==
    /\ Len(delivered') >= Len(delivered)
    /\ SubSeq(delivered', 1, Len(delivered)) = delivered

\* C25: when a streaming attempt fails transiently after j tokens were
\* delivered, the retry runs the whole operation from the beginning: the
\* caller observes those j tokens followed by the complete output of the
\* retried attempt, and no delivered token is retracted.
C25_RetryRestartsStream ==
    [](C25_Observed) /\ [][C25_NoRetraction]_vars

\* a transient failure after the first token, then a successful retry
C25_Witness ==
    /\ rcfg.path = "stream" /\ rpc = "returned" /\ AllFailuresTransient
    /\ Len(Failures) >= 1
    /\ \E i \in 1..Len(Failures) : Failures[i].d >= 1
    /\ delivered = DeliveredByFailed(Failures) \o CompleteOutput

----------------------------------------------------------------------------
(* Claims about the agent loop *)

\* the run has ended, normally or by an exception
AgentEnded == apc \in {"done", "raised"}

\* the tool results of the current turn have been assembled
TurnAssembled == genCalls > 0 /\ lastTurn.gen = genCalls /\ tasks # <<>>

\* every call the current response requests names a registered tool
AllRegistered ==
    LET tl == ToolContent(response)
    IN Len(tasks) = Cardinality({ i \in 1..Len(tl) : IsToolBlock(tl[i]) })

ContainsRun(t, s) ==
    \E k \in 0..(Len(s) - Len(t)) : SubSeq(s, k + 1, k + Len(t)) = t

\* the tool-request message of the latest assembled turn and its results
LastTurnRun ==
    <<FinalMsg(lastTurn.gen)>>
      \o ToolResultMsgs(lastTurn.state, lastTurn.gen, lastTurn.n)

\* a generate call that follows a TOOL_USE turn has just been made
NextCallAfterToolTurn ==
    apc = "stream" /\ genCalls >= 2 /\ lastTurn.gen = genCalls - 1

\* C1: with max_iterations = k and a model whose every generation ends
\* with TOOL_USE, generate_and_action_async makes exactly k generate calls
\* and then ends without raising.
C1_ExactlyKCallsNoRaise ==
    (AgentEnded /\ onlyToolUse) =>
        apc = "done" /\ aerr = "none" /\ genCalls = acfg.max_iterations

\* C2: a turn that requests N calls to registered tools gives exactly N
\* result entries, entry i is error-flagged exactly when call i failed,
\* every sibling has completed, and the agent has not raised.
C2_OneFlaggedEntryPerCall ==
    (TurnAssembled /\ AllRegistered) =>
        /\ Len(results) = Len(tasks)
        /\ AllDone
        /\ aerr = "none"
        /\ \A i \in 1..Len(results) :
              (results[i].is_error = "true") <=> (tstatus[i] # "ok")
        /\ \A i \in 1..Len(results) :
              (results[i].is_error = "false") <=> (tstatus[i] = "ok")

\* C7: once a generation ends with a stop reason other than TOOL_USE, the
\* last item yielded is that stop reason with its message, the run is
\* over (no further generate call) and no tool ran in that turn.
C7_FinalStopEndsRun ==
    (stopReason \notin {"None", "TOOL_USE"}) =>
        /\ apc = "done"
        /\ Last(outs) = Out("None", stopReason, FinalMsg(genCalls), NoRef)
        /\ tasks = <<>>
        /\ results = <<>>
        /\ toolRuns = 0
        /\ lastTurn.gen < genCalls

C7_Witness ==
    /\ stopReason = "END_TURN"
    /\ apc = "done"
    /\ genCalls = 2
    /\ lastTurn.gen = 1
    /\ lastTurn.n > 0

\* C8: the result entries exist only once every call of the turn has
\* completed, and the i-th entry carries the id of the i-th requested
\* call, whatever the order of completion.
C8_RequestOrderIds ==
    /\ (results # <<>> => AllDone)
    /\ (TurnAssembled /\ AllRegistered) =>
          /\ Len(results) = Len(tasks)
          /\ \A i \in 1..Len(results) : results[i].call_id = tasks[i].id

\* C9 (as stated): after a TOOL_USE turn the input of the next generate
\* call contains the tool-request message immediately followed by the
\* turn's tool-result messages, for every configuration of the agent.
C9_ResultsFedBack_AnyConfig ==
    NextCallAfterToolTurn => ContainsRun(LastTurnRun, genInput)

\* C9 (amended): the same, for an agent with auto_update_memory enabled.
C9_ResultsFedBack ==
    (NextCallAfterToolTurn /\ acfg.auto_update_memory) =>
        ContainsRun(LastTurnRun, genInput)

C9_Witness ==
    /\ NextCallAfterToolTurn
    /\ acfg.auto_update_memory
    /\ lastTurn.n = 2
    /\ lastTurn.state = "MISTRAL_JAMBA_LLAMA"

\* the first generation of a default agent (auto_update_memory on, room
\* for a second iteration) ended with TOOL_USE and one tool-use item that
\* names the registered tool whose metadata carries an input_schema
OneToolTurn ==
    /\ acfg.auto_update_memory /\ acfg.max_iterations >= 2
    /\ genCalls = 1 /\ stopReason = "TOOL_USE"
    /\ response = AssistantMsg(<<ToolUseItem(1, "sync_tool")>>, <<>>)

\* the second generation follows a content-block turn with one result
SecondAfterOneTool ==
    /\ acfg.auto_update_memory
    /\ genCalls = 2
    /\ lastTurn = [gen |-> 1, state |-> "CLAUDE", n |-> 1]

\* C21: end to end with one registered tool: the first generation asks for
\* the tool, the loop runs the tool body exactly once, the result message
\* holds the return string of the body and is in memory at the second
\* generate call, and after END_TURN of the second generation the run is over with
\* the final message yielded (2 generate calls).
C21_OneToolEndToEnd ==
    /\ (OneToolTurn /\ apc = "tools" /\ AllDone) => toolRuns = 1
    /\ (OneToolTurn /\ apc = "loop" /\ tstatus # <<"raised">>) =>
          /\ Len(results) = 1
          /\ results[1].content = "ok"
          /\ results[1].is_error = "false"
    /\ (SecondAfterOneTool /\ apc = "stream") =>
          ContainsRun(LastTurnRun, genInput)
    /\ (SecondAfterOneTool /\ stopReason = "END_TURN") =>
          /\ apc = "done"
          /\ Last(outs) = Out("None", "END_TURN", FinalMsg(2), NoRef)

\* the items of a TOOL_USE turn of generation g with n result entries
ToolUseOut(g) == Out("None", "TOOL_USE", FinalMsg(g), NoRef)
ResultsOut(g, n) == Out("None", "None", NoRef, ResultsRef(g, n))

\* the turn of the current generation ended with its tool results yielded
ToolTurnOver ==
    stopReason = "TOOL_USE" /\ lastTurn.gen = genCalls /\ apc \in {"loop", "done"}

\* what has been yielded: a token comes alone; the TOOL_USE item is the
\* last one while the tools run; the finished turn ends with the TOOL_USE
\* item and then its results; a run does not end between the two
C24_YieldedItems ==
    /\ \A i \in 1..Len(outs) :
          outs[i].token # "None" =>
              /\ outs[i].stop_reason = "None"
              /\ outs[i].message = NoRef
              /\ outs[i].tool_results = NoRef
    /\ (stopReason = "TOOL_USE" /\ apc = "tools") =>
          Last(outs) = ToolUseOut(genCalls)
    /\ ToolTurnOver =>
          outs = <<ToolUseOut(genCalls), ResultsOut(genCalls, Len(results))>>
    /\ (stopReason = "TOOL_USE" /\ AgentEnded) => ToolTurnOver

\* the item that follows: after the TOOL_USE item the results of the same
\* generation, after the results an item of the following generation
C24_FollowingItem ==
    (outs # <<>> /\ outs' # outs) =>
        /\ Last(outs).stop_reason = "TOOL_USE" =>
              /\ genCalls' = genCalls
              /\ Last(outs') = ResultsOut(genCalls, Len(results'))
        /\ Last(outs).tool_results # NoRef =>
              /\ genCalls' = Last(outs).tool_results.gen + 1
              /\ \/ Last(outs').tool_results = NoRef
                 \/ outs' = <<ToolUseOut(genCalls'),
                              ResultsOut(genCalls', Len(results'))>>

\* C24: for each generation that ends with TOOL_USE the agent yields
\* (None, TOOL_USE, message, None) and next exactly one item
\* (None, None, None, tool_results) before any item of the following
\* generation; an item that carries a token carries nothing else.
C24_ToolUseThenResults ==
    [](C24_YieldedItems) /\ [][C24_FollowingItem]_vars

\* the tool-use items of the response's content list, in order
ToolUseItems == SelectSeq(response.content, LAMBDA it : it.type = "tool_use")

\* those of them whose name is registered
RegisteredToolUseItems ==
    SelectSeq(ToolUseItems, LAMBDA it : it.name \in DOMAIN tool_functions)

\* the TOOL_USE response of this turn has been handed to __process_tools
ToolsProcessed ==
    /\ stopReason = "TOOL_USE"
    /\ apc \in {"tools", "loop", "raised"}
    /\ aerr # "TransportError"

\* C31: for a TOOL_USE response the agent takes the content-block branch
\* exactly when the response carries tool-use content items and the
\* structured-call branch exactly when it carries a non-empty tool_calls
\* list, whatever the order of the content items; every tool-use item is
\* then dispatched (an item whose name is not registered is left to C34).
C31_BranchFollowsResponseShape ==
    ToolsProcessed =>
        /\ (response.tool_calls = <<>> /\ ToolUseItems # <<>>)
               => /\ ToolStateOf(ToolContent(response)) = "CLAUDE"
                  /\ aerr = "none"
                  /\ apc = "tools" => tasks = RegisteredToolUseItems
                  /\ apc = "loop" => lastTurn.n = Len(RegisteredToolUseItems)
        /\ response.tool_calls # <<>>
               => ToolStateOf(ToolContent(response)) = "MISTRAL_JAMBA_LLAMA"

\* the calls the TOOL_USE response asks for, in order
RequestedCalls == SelectSeq(ToolContent(response), IsToolBlock)

\* C34: every tool call requested in a TOOL_USE turn gets exactly one result
\* entry, also when its name is not in the tool registry: the finished turn
\* has as many result entries as requested calls, and the entry of an
\* unregistered name is error-flagged.
C34_OneEntryPerRequestedCall ==
    ToolTurnOver =>
        /\ Len(results) = Len(RequestedCalls)
        /\ \A i \in 1..Len(RequestedCalls) :
               RequestedCalls[i].name \notin DOMAIN tool_functions
                   => results[i].is_error = "true"

----------------------------------------------------------------------------
(* Claims about the adapters' streaming parsers *)

\* C6: parse_stream_response yields at most one triple with a non-null
\* stop reason, and that triple is the last one it yields.
C6_SingleTerminalTriple ==
    \A i \in 1..Len(yielded) :
        yielded[i].stop_reason # "None" => i = Len(yielded)

\* the triples with a stop reason among those yielded
StopTriples == SelectSeq(yielded, LAMBDA t : t.stop_reason # "None")

\* the plain-text stream has met its stop signal with text that is
\* bracketed like a tool call and gives no structured calls
MalformedToolText ==
    LET resp == Strip(sfull)
    IN /\ adapter = "Llama" /\ spc \in {"done", "raised"}
       /\ StopTriples # <<>> \/ spc = "raised"
       /\ resp # <<>> /\ Head(resp) = "[" /\ Last(resp) = "]"
       /\ ParseToolCalls(resp) # "calls"

\* C26: in the plain-text dialect, malformed tool-call text at the end of
\* the stream does not raise: the stream ends with a single terminal triple
\* whose StopReason is ERROR and which carries the message.
C26_MalformedToolTextDegrades ==
    MalformedToolText =>
        /\ spc = "done" /\ serr = "none"
        /\ StopTriples = << Triple("None", "ERROR", "message") >>
        /\ Last(yielded) = Triple("None", "ERROR", "message")

----------------------------------------------------------------------------
(* Claims about one call of a client *)

HasEv(e) == \E i \in 1..Len(clog) : clog[i] = e

CountEv(e) == Cardinality({ i \in 1..Len(clog) : clog[i] = e })

\* tools are supplied to a dialect that cannot carry them
ToolConflict == creq.tools /\ ~ToolsSupported(creq.adapter)

\* C11: with a non-empty tools list, prepare_request and
\* prepare_request_async of Mistral instruct and Titan raise every time they
\* run, no request is built, the transport is never invoked and the call
\* does not return a result.
C11_NoToolDialectFailsFast ==
    ToolConflict =>
        /\ ~HasEv("prepare")
        /\ ~HasEv("transport")
        /\ cpc # "returned"

C11_Witness ==
    /\ ToolConflict
    /\ rcfg.path = "stream"
    /\ cpc = "raised"
    /\ cerr = "ValueError_Tools"
    /\ HasEv("prepare_raises")

\* C12: when building the request raised a configuration error, the prepare
\* operation ran exactly once in the call and nothing was slept before the
\* error reached the caller.
C12_ConfigErrorNotRetried ==
    (cpc = "raised" /\ HasEv("prepare_raises")) =>
        /\ CountEv("prepare_raises") + CountEv("prepare") = 1
        /\ ~HasEv("sleep")

\* C13: a client whose memory is a list (empty or not) called with
\* auto_update_memory on and a plain string prompt raises before the
\* transport is invoked and leaves memory as it was.
C13_StringPromptRejected ==
    (creq.memory.enabled /\ creq.auto_update_memory /\ creq.prompt = "str"
       /\ cpc \notin {"idle", "start"}) =>
        /\ cpc = "raised"
        /\ cerr \in {"ValueError_Prompt", "ModelMemoryException"}
        /\ ~HasEv("transport")
        /\ cmem = creq.memory

\* C23: with memory enabled, after a successful call given a list of
\* messages, memory is its previous content, then the prompt messages of
\* the call, then exactly one new assistant message, the final one.
C23_MemoryGainsPromptAndReply ==
    (cpc = "returned" /\ creq.memory.enabled /\ creq.auto_update_memory
       /\ creq.prompt = "msgs") =>
        cmem = Memory(creq.memory.msgs \o <<"prompt", "reply">>)

\* C36: when a client has memory disabled (memory is None) or
\* auto_update_memory is off, BaseClient._process_prompt passes the caller's
\* structured prompt to the adapter as exactly those messages, in order.
C36_StructuredPromptPassedThrough ==
    (/\ cpc \notin {"idle", "start"}
     /\ rcfg.path # "generate"
     /\ creq.prompt = "msgs"
     /\ ~creq.memory.enabled \/ ~creq.auto_update_memory)
        => cinvoke = InvokeMsgs(<<"prompt">>)

----------------------------------------------------------------------------
(* Claims about the agent's memory management *)

\* C14: with memory_limit = L, after every _update_memory call the memory
\* used for generation holds at most L messages.
C14_MemoryWithinLimit ==
    mlast = "update" => Len(mmemory) <= mlimit

----------------------------------------------------------------------------
(* Claims about the content-block stream (SpecStream) *)

\* the block that is open after one more event of the backend's protocol:
\* a block is started, receives the deltas of its kind and is stopped, and
\* the message_delta comes when no block is open; "bad" otherwise
OpenStep(open, e) ==
    IF e = "start_text" THEN (IF open = "none" THEN "text" ELSE "bad")
    ELSE IF e = "start_tool_use" THEN (IF open = "none" THEN "tool_use" ELSE "bad")
    ELSE IF e = "text_delta" THEN (IF open = "text" THEN "text" ELSE "bad")
    ELSE IF e = "input_json_delta" THEN (IF open = "tool_use" THEN "tool_use" ELSE "bad")
    ELSE IF e = "stop" THEN (IF open \in {"text", "tool_use"} THEN "none" ELSE "bad")
    ELSE (IF open = "none" THEN "none" ELSE "bad")

RECURSIVE OpenAfter(_)
OpenAfter(ev) ==
    IF ev = <<>> THEN "none"
    ELSE OpenStep(OpenAfter(SubSeq(ev, 1, Len(ev) - 1)), Last(ev))

\* the events consumed follow the protocol, with every block closed
Conforming(ev) == OpenAfter(ev) = "none"

\* the text tokens of the yielded triples, in order
RECURSIVE TextTokens(_)
TextTokens(y) ==
    IF y = <<>> THEN <<>>
    ELSE IF Head(y).token = "None" THEN TextTokens(Tail(y))
    ELSE <<Head(y).token>> \o TextTokens(Tail(y))

\* the text of the text blocks of a content list, in order
RECURSIVE AssembledText(_)
AssembledText(c) ==
    IF c = <<>> THEN <<>>
    ELSE (IF Head(c).type = "text" THEN Head(c).text ELSE <<>>)
         \o AssembledText(Tail(c))

ClaudeFinished ==
    /\ adapter = "Claude" /\ spc = "done"
    /\ yielded # <<>> /\ Last(yielded).message = "message"
    /\ Conforming(sevents)

\* C18: when a content-block stream has ended with its terminal triple, the
\* text tokens yielded before it, concatenated in order, are the text of the
\* text blocks of the final message.
C18_TokensEqualAssembledText ==
    ClaudeFinished => TextTokens(yielded) = AssembledText(scontent)

\* a finished stream whose text block was assembled from two tokens
C18_Witness ==
    /\ ClaudeFinished
    /\ Len(TextTokens(yielded)) = 2
    /\ \E i \in 1..Len(scontent) :
           scontent[i].type = "text" /\ Len(scontent[i].text) = 2

\* a tool block is open and the next event is to close it
ToolBlockOpen ==
    /\ adapter = "Claude" /\ spc = "parse"
    /\ OpenAfter(sevents) = "tool_use"

\* the stop of a tool block whose buffer does not parse adds one tool-use
\* item with the empty object as input, yields nothing and raises nothing
C27_InvalidJsonStop ==
    (ToolBlockOpen /\ ~ValidJson(stool) /\ sevents' = Append(sevents, "stop"))
        => /\ scontent' = Append(scontent, ToolUseBlock("{}"))
           /\ spc' = "parse" /\ serr' = "none"
           /\ yielded' = yielded

HasEmptyInputItem ==
    \E i \in 1..Len(scontent) :
        scontent[i].type = "tool_use" /\ scontent[i].input = "{}"

\* no content-block stream is raised out of at the stop of a tool block, and
\* a stream that has yielded its terminal triple has raised nothing
C27_NotRaised ==
    /\ (adapter = "Claude" /\ spc = "raised" /\ sevents # <<>>
            /\ Last(sevents) = "stop")
           => OpenAfter(SubSeq(sevents, 1, Len(sevents) - 1)) # "tool_use"
    /\ ClaudeFinished => serr = "none"

\* C27: in the content-block stream, when the tool-input buffer of a tool
\* block is not valid JSON at block stop, the tool-use item is emitted with an
\* empty object as input and the stream goes on to its terminal triple
\* without raising.
C27_InvalidJsonYieldsEmptyInput ==
    [](C27_NotRaised) /\ [][C27_InvalidJsonStop]_vars

\* a finished stream one of whose tool blocks received a fragment that is not
\* a JSON document and was emitted with the empty object
C27_Witness ==
    /\ ClaudeFinished
    /\ "input_json_delta" \in {sevents[i] : i \in 1..Len(sevents)}
    /\ HasEmptyInputItem

\* C28: for every adapter, no triple yielded by parse_stream_response before
\* the terminal triple carries a message: a message appears only in the last
\* triple yielded, together with the stop reason.
C28_MessageOnlyInTerminalTriple ==
    \A i \in 1..Len(yielded) :
        yielded[i].message # "None"
            => /\ yielded[i].stop_reason # "None"
               /\ i = Len(yielded)

\* the text buffer and the tool-input buffer are not both non-empty
C29_OneBufferActive == ~(sfull # <<>> /\ stool # <<>>)

\* a content_block_stop met with a non-empty buffer adds one content item and
\* leaves both buffers empty
C29_StopFlushes ==
    (adapter = "Claude" /\ sevents' = Append(sevents, "stop")
        /\ (sfull # <<>> \/ stool # <<>>))
        => /\ Len(scontent') = Len(scontent) + 1
           /\ sfull' = <<>> /\ stool' = <<>>

ClosedToolBlocks(ev) ==
    Len(SelectSeq(ev, LAMBDA e : e = "start_tool_use"))
        - (IF OpenAfter(ev) = "tool_use" THEN 1 ELSE 0)

\* on the protocol, the content list holds one tool-use item per closed tool
\* block
C38_ItemsAreToolBlocks ==
    (adapter = "Claude" /\ OpenAfter(sevents) # "bad")
        => Len(SelectSeq(scontent, LAMBDA b : b.type = "tool_use"))
               = ClosedToolBlocks(sevents)

\* the stop of a text block that received no text adds no item and raises
\* nothing
C38_EmptyTextBlockStop ==
    (/\ adapter = "Claude" /\ spc = "parse"
     /\ OpenAfter(sevents) = "text" /\ sfull = <<>>
     /\ sevents' = Append(sevents, "stop"))
        => spc' = "parse" /\ serr' = "none" /\ scontent' = scontent

\* C38: in the content-block stream every tool-use item of the final message
\* corresponds to a streamed tool block, with the id and name captured at
\* that block's start; a text block that closes with no text adds no
\* tool-use item and does not abort the stream.
C38_ToolItemsFromToolBlocksOnly ==
    [](C38_ItemsAreToolBlocks) /\ [][C38_EmptyTextBlockStop]_vars

----------------------------------------------------------------------------
(* Claims about parse_response (SpecParse) *)

\* the finish signal by which each backend reports the end of the turn,
\* the token limit and a tool request
EndSignal(a) ==
    IF a = "Claude" THEN "end_turn" ELSE IF a = "Titan" THEN "FINISH" ELSE "stop"

LengthSignal(a) ==
    IF a = "Claude" THEN "max_tokens" ELSE IF a = "Titan" THEN "LENGTH" ELSE "length"

ToolSignal(a) ==
    IF a = "Claude" THEN "tool_use" ELSE IF a = "MistralChat" THEN "tool_calls" ELSE "none"

\* C16: for every dialect, parse_response maps the backend's finish signal
\* to StopReason: the end-of-turn signal to END_TURN, the length signal to
\* MAX_TOKENS, the tool signal to TOOL_USE, an unrecognized one to ERROR.
C16_FinishSignalMapping ==
    ppc = "returned" =>
        /\ preq.signal = EndSignal(preq.adapter) => pres.stop = "END_TURN"
        /\ preq.signal = LengthSignal(preq.adapter) => pres.stop = "MAX_TOKENS"
        /\ preq.signal = ToolSignal(preq.adapter) => pres.stop = "TOOL_USE"
        /\ preq.signal = "other" => pres.stop = "ERROR"

\* C35: the content-block adapter maps every raw stop signal to the same
\* StopReason in parse_response as in parse_stream_response.
C35_SameStopReasonBothPaths ==
    (ppc = "returned" /\ preq.adapter = "Claude")
        => pres.stop = ClaudeStop(preq.signal)

\* C17: for every dialect and payload, the message returned by
\* parse_response has the role "assistant".
C17_ParsedRoleAssistant ==
    ppc = "returned" => pres.role = "assistant"

\* a backend that signals a tool request sends the request with it
PayloadCoherent ==
    preq.signal = ToolSignal(preq.adapter) => preq.tooluse

\* C22: a message that an adapter returns together with TOOL_USE holds at
\* least one tool-use content item or a non-empty tool_calls list.
C22_ToolUseHasToolItems ==
    (ppc = "returned" /\ pres.stop = "TOOL_USE" /\ PayloadCoherent) =>
        pres.tools

----------------------------------------------------------------------------
(* Claims about tool registration (SpecRegistry) *)

\* C19: registering a second callable under an already-registered name
\* replaces the first: the registry then maps the name to the second
\* callable and its metadata, and no error is raised.
C19_ReregistrationReplaces ==
    regLast.registered =>
        /\ regFunctions[regLast.name] = ToolInfo(regLast.func, regLast.metadata)
        /\ regLast.error = "none"

\* C20: registering a tool under a name that is already registered raises
\* ValueError.
C20_DuplicateNameRaises ==
    regLast.registered => regLast.error = "ValueError"

----------------------------------------------------------------------------
(* Claims about the adapter cache (SpecImpl) *)

\* the instances created for one model name
MadeFor(n) == {i \in 1..Len(implMade) : implMade[i] = n}

\* C32: for any number of clients constructed with the same backend
\* identifier, also concurrently from several threads, exactly one adapter
\* instance is created for that identifier and all those clients share it.
C32_OneAdapterPerIdentifier ==
    /\ \A n \in ModelNames : Cardinality(MadeFor(n)) <= 1
    /\ \A c, d \in Clients :
           (ipc[c] = "built" /\ ipc[d] = "built" /\ iname[c] = iname[d])
               => iheld[c] = iheld[d]

----------------------------------------------------------------------------
(* Claims about the execution of tool bodies (SpecExec) *)

\* C33: a synchronous tool body always runs on the worker pool and never on
\* the event loop, at most 10 synchronous bodies run at the same time over
\* all Agent instances, and an asynchronous body is awaited directly, on the
\* event loop.
C33_SyncBodiesOnBoundedPool ==
    /\ \A a \in Agents : xbody[<<a, FALSE, "loop">>] = 0
    /\ At("worker") <= 10
    /\ \A a \in Agents :
           xbody[<<a, TRUE, "queue">>] = 0 /\ xbody[<<a, TRUE, "worker">>] = 0

\* ten synchronous bodies of two agents run, another one waits in the queue
\* and an asynchronous body is being awaited
C33_Witness ==
    /\ At("worker") = 10
    /\ \A a \in Agents : xbody[<<a, FALSE, "worker">>] > 0
    /\ \E a \in Agents : xbody[<<a, FALSE, "queue">>] > 0
    /\ \E a \in Agents : xbody[<<a, TRUE, "loop">>] > 0

----------------------------------------------------------------------------
(* Claims about the cached transport clients (SpecTransport) *)

\* C40: after any sequence of client creations and close() calls, each
\* cached async transport client has been closed at most once, and the
\* transport held by every open client has not been closed.
C40_TransportClosedAtMostOnce ==
    /\ \A t \in Transports : tclosed[t] <= 1
    /\ \A c \in Clients : theld[c] # 0 => tclosed[theld[c]] = 0

====
